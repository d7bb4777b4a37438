------------------------------ MODULE ChatProofs ------------------------------
(***************************************************************************)
(* The chat keeps its promises for any sessions, turns, notifications and  *)
(* answers.  Two arguments that hardly meet: a message of a turn is in one *)
(* place at a time and the turn waits for it; the notifications that are   *)
(* still to be sent are the last ones that were accepted.                  *)
(***************************************************************************)
EXTENDS Chat, TLAPS

-----------------------------------------------------------------------------
\* A turn has its question in hand first, then the parts of the answer; past the
\* prompt the assistant had a name.
TurnSound(t) ==
    /\ turn[t].pc \in {"idle", "name", "save", "prompt", "recall", "answer"} => turn[t].part = 0
    /\ turn[t].pc \in {"reply", "push"} => turn[t].part <= turn[t].replies
    /\ turn[t].pc \in {"save", "prompt"} /\ memory = "up" => turn[t].named
    /\ turn[t].pc \in {"recall", "answer", "reply", "push"} => turn[t].named

\* A message between its SaveMessage and the end of its INSERT.
Mailed(m) == \E i \in 1..Len(mail) : mail[i].op = "save" /\ mail[i].arg = m
InTransit(m) == m \in inserting \/ Mailed(m)

\* It is there once.
Apart ==
    /\ \A i, j \in 1..Len(mail) :
          mail[i].op = "save" /\ mail[j].op = "save" /\ mail[i].arg = mail[j].arg => i = j
    /\ \A m \in inserting : ~Mailed(m)

\* The turn waits for its message in transit, and has not been told of it.
TransitSound ==
    \A t \in Turns, p \in Parts : InTransit(<<t, p>>) =>
        /\ turn[t].pc \in {"save", "push"} /\ p = turn[t].part
        /\ ~Settled(<<t, p>>)

\* The messages that were saved or lost are those up to the current one.
SettledSoFar ==
    \A t \in Turns, p \in Parts : Settled(<<t, p>>) =>
        /\ p <= turn[t].part
        /\ turn[t].pc \in {"idle", "name", "reply"} => p < turn[t].part

PushesSound ==
    \A s \in Sessions : \A i \in 1..Len(shown[s]) :
        shown[s][i].how = "push" =>
            /\ shown[s][i].msg[1] \in Turns
            /\ shown[s][i].msg[2] # Failure =>
                  /\ Settled(shown[s][i].msg)
                  /\ turn[shown[s][i].msg[1]].named
                  /\ turn[shown[s][i].msg[1]].pc \notin {"idle", "name"}

TurnsSafe ==
    /\ \A t \in Turns : TurnSound(t)
    /\ Apart /\ TransitSound /\ SettledSoFar /\ PushesSound /\ TranscriptInOrder

-----------------------------------------------------------------------------
\* A notification comes once.
Taken(n) == \E i \in 1..Len(accepted) : accepted[i] = n
NotesOnce ==
    /\ \A i, j \in 1..Len(accepted) : accepted[i] = accepted[j] => i = j
    /\ \A n \in Notes : Mailed(<<n, 0>>) => ~Taken(n)
    /\ \A n \in Notes : <<n, 0>> \in inserting => Taken(n)

\* What is to be broadcast is the end of what was accepted, in its order.
Sent == Len(accepted) - Len(queue)
QueueIsTheEnd ==
    /\ Len(queue) <= Len(accepted)
    /\ \A i \in 1..Len(queue) : queue[i] = accepted[Sent + i]

\* A session shows notifications from before, in their order.
ShownFromBefore(s) ==
    \A i \in 1..Len(shown[s]) : IsNote(shown[s][i].msg) =>
        \E p \in 1..Sent : accepted[p] = shown[s][i].msg[1]
ShownInOrder(s) ==
    \A i, j \in 1..Len(shown[s]) :
        i < j /\ IsNote(shown[s][i].msg) /\ IsNote(shown[s][j].msg) =>
        \A p, q \in 1..Sent :
            accepted[p] = shown[s][i].msg[1] /\ accepted[q] = shown[s][j].msg[1] => p < q

\* Nobody subscribes before he is connected; what is owed is still to be sent.
Subscribing(s) ==
    s \in subscribers \/ \E i \in 1..Len(mail) : mail[i].op = "subscribe" /\ mail[i].arg = s
NothingMissed ==
    /\ \A s \in Sessions : Subscribing(s) => session[s] # "none"
    /\ subscribers # {} => owed = {}
    /\ \A n \in owed : Contains(queue, n)
    /\ \A s \in subscribers : session[s] = "open" =>
          \A n \in due[s] : Contains(queue, n) \/ SentTo(s, n)

NotesSafe ==
    /\ NotesOnce /\ QueueIsTheEnd
    /\ \A s \in Sessions : ShownFromBefore(s) /\ ShownInOrder(s)
    /\ NothingMissed

ChatSafe == ChatTypeOK /\ TurnsSafe /\ NotesSafe

-----------------------------------------------------------------------------
\* Sequences.
LEMMA Appended ==
    ASSUME NEW S, NEW s \in Seq(S), NEW e \in S
    PROVE  /\ Append(s, e) \in Seq(S) /\ Len(Append(s, e)) = Len(s) + 1
           /\ Append(s, e)[Len(s) + 1] = e
           /\ \A i \in 1..Len(s) : Append(s, e)[i] = s[i]
  OBVIOUS

LEMMA TailOf ==
    ASSUME NEW S, NEW s \in Seq(S), s # <<>>
    PROVE  /\ Tail(s) \in Seq(S) /\ Len(Tail(s)) = Len(s) - 1 /\ Len(s) >= 1
           /\ Head(s) = s[1] /\ Head(s) \in S
           /\ \A i \in 1..Len(s) - 1 : Tail(s)[i] = s[i + 1]
  OBVIOUS

LEMMA Joined ==
    ASSUME NEW S, NEW s \in Seq(S), NEW r \in Seq(S)
    PROVE  /\ s \o r \in Seq(S) /\ Len(s \o r) = Len(s) + Len(r)
           /\ \A i \in 1..Len(s) : (s \o r)[i] = s[i]
           /\ \A i \in 1..Len(r) : (s \o r)[Len(s) + i] = r[i]
           /\ \A i \in Len(s) + 1..Len(s \o r) :
                 i - Len(s) \in 1..Len(r) /\ (s \o r)[i] = r[i - Len(s)]
  OBVIOUS

\* A message is a question or a part of an answer, or a notification.
LEMMA MessageParts ==
    ASSUME NEW m \in Messages
    PROVE  /\ m = <<m[1], m[2]>> /\ m[2] \in Parts
           /\ \/ m[1] \in Turns /\ ~IsNote(m)
              \/ m[1] \in Notes /\ IsNote(m) /\ m[2] = 0
  BY ChatAssumption DEF Messages, IsNote, Parts

LEMMA TurnMessage ==
    ASSUME NEW t \in Turns, NEW p \in Parts
    PROVE  /\ <<t, p>> \in Messages /\ <<t, p>>[1] = t /\ <<t, p>>[2] = p
           /\ ~IsNote(<<t, p>>)
           /\ Push(<<t, p>>) \in Frame /\ Push(<<t, p>>).how = "push"
           /\ Push(<<t, p>>).msg = <<t, p>>
  BY ChatAssumption DEF Messages, IsNote, Push, Frame

LEMMA FailureMessage ==
    ASSUME NEW t \in Turns
    PROVE  /\ <<t, Failure>>[1] = t /\ <<t, Failure>>[2] = Failure
           /\ ~IsNote(<<t, Failure>>)
           /\ Push(<<t, Failure>>) \in Frame /\ Push(<<t, Failure>>).how = "push"
           /\ Push(<<t, Failure>>).msg = <<t, Failure>>
  BY ChatAssumption DEF IsNote, Push, Frame

LEMMA NoteMessage ==
    ASSUME NEW n \in Notes
    PROVE  /\ <<n, 0>> \in Messages /\ <<n, 0>>[1] = n /\ IsNote(<<n, 0>>)
           /\ Event(<<n, 0>>) \in Frame /\ Event(<<n, 0>>).how = "event"
           /\ Event(<<n, 0>>).msg = <<n, 0>>
  BY ChatAssumption DEF Messages, IsNote, Event, Frame, Parts

LEMMA RequestParts ==
    ASSUME NEW r \in Request
    PROVE  /\ r.op = "save" => r.arg \in Messages
           /\ r.op \in {"subscribe", "unsubscribe"} => r.arg \in Sessions
           /\ r.op \in {"save", "subscribe", "unsubscribe"}
  BY DEF Request

-----------------------------------------------------------------------------
\* What a step does to the mailbox.
LEMMA Delivered ==
    ASSUME mail \in Seq(Request), NEW op, NEW arg, [op |-> op, arg |-> arg] \in Request,
           Deliver(op, arg)
    PROVE  /\ mail' \in Seq(Request) /\ Len(mail') = Len(mail) + 1
           /\ mail'[Len(mail) + 1].op = op /\ mail'[Len(mail) + 1].arg = arg
           /\ \A i \in 1..Len(mail) : mail'[i] = mail[i]
  <1> DEFINE r == [op |-> op, arg |-> arg]
  <1>1. r.op = op /\ r.arg = arg /\ r \in Request /\ mail' = Append(mail, r)
    BY DEF Deliver
  <1> HIDE DEF r
  <1> QED BY <1>1, Appended

LEMMA SaveDelivered ==
    ASSUME mail \in Seq(Request), NEW m \in Messages, Deliver("save", m)
    PROVE  /\ mail' \in Seq(Request)
           /\ \A x : Mailed(x)' <=> Mailed(x) \/ x = m
           /\ \A s : (\E i \in 1..Len(mail') : mail'[i].op = "subscribe" /\ mail'[i].arg = s)
                     => Subscribing(s)
           /\ Apart /\ ~InTransit(m) => (UNCHANGED inserting => Apart')
  <1>1. [op |-> "save", arg |-> m] \in Request
    BY DEF Request
  <1>2. /\ mail' \in Seq(Request) /\ Len(mail') = Len(mail) + 1
        /\ mail'[Len(mail) + 1].op = "save" /\ mail'[Len(mail) + 1].arg = m
        /\ \A i \in 1..Len(mail) : mail'[i] = mail[i]
    BY <1>1, Delivered
  <1>3. Len(mail) \in Nat
    OBVIOUS
  <1>4. \A i \in 1..Len(mail') : i \in 1..Len(mail) \/ i = Len(mail) + 1
    BY <1>2, <1>3
  <1>5. Len(mail) + 1 \in 1..Len(mail') /\ 1..Len(mail) \subseteq 1..Len(mail')
    BY <1>2, <1>3
  <1>6. \A x : Mailed(x)' <=> Mailed(x) \/ x = m
    BY <1>2, <1>4, <1>5 DEF Mailed
  <1>7. \A s : (\E i \in 1..Len(mail') : mail'[i].op = "subscribe" /\ mail'[i].arg = s)
               => Subscribing(s)
    BY <1>2, <1>4 DEF Subscribing
  <1>8. Apart /\ ~InTransit(m) /\ UNCHANGED inserting => Apart'
    BY <1>2, <1>4, <1>6 DEF Apart, InTransit, Mailed
  <1> QED BY <1>2, <1>6, <1>7, <1>8

LEMMA OtherDelivered ==
    ASSUME mail \in Seq(Request), NEW op \in {"subscribe", "unsubscribe"}, NEW c \in Sessions,
           Deliver(op, c), UNCHANGED inserting
    PROVE  /\ mail' \in Seq(Request)
           /\ \A x : Mailed(x)' <=> Mailed(x)
           /\ \A s : (\E i \in 1..Len(mail') : mail'[i].op = "subscribe" /\ mail'[i].arg = s)
                     => Subscribing(s) \/ (op = "subscribe" /\ s = c)
           /\ Apart => Apart'
  <1>1. [op |-> op, arg |-> c] \in Request
    BY DEF Request
  <1>2. /\ mail' \in Seq(Request) /\ Len(mail') = Len(mail) + 1
        /\ mail'[Len(mail) + 1].op = op /\ mail'[Len(mail) + 1].arg = c
        /\ \A i \in 1..Len(mail) : mail'[i] = mail[i]
    BY <1>1, Delivered
  <1>3. Len(mail) \in Nat
    OBVIOUS
  <1>4. \A i \in 1..Len(mail') : i \in 1..Len(mail) \/ i = Len(mail) + 1
    BY <1>2, <1>3
  <1>5. 1..Len(mail) \subseteq 1..Len(mail')
    BY <1>2, <1>3
  <1>6. \A x : Mailed(x)' <=> Mailed(x)
    BY <1>2, <1>4, <1>5 DEF Mailed
  <1>7. \A s : (\E i \in 1..Len(mail') : mail'[i].op = "subscribe" /\ mail'[i].arg = s)
               => Subscribing(s) \/ (op = "subscribe" /\ s = c)
    BY <1>2, <1>4 DEF Subscribing
  <1>8. Apart => Apart'
    BY <1>2, <1>4, <1>6 DEF Apart
  <1> QED BY <1>2, <1>6, <1>7, <1>8

\* The first request is taken out.
LEMMA Handled ==
    ASSUME mail \in Seq(Request), mail # <<>>, mail' = Tail(mail)
    PROVE  /\ mail' \in Seq(Request) /\ Head(mail) \in Request
           /\ \A x : Mailed(x) <=> Mailed(x)' \/ (Head(mail).op = "save" /\ x = Head(mail).arg)
           /\ \A s : (\E i \in 1..Len(mail') : mail'[i].op = "subscribe" /\ mail'[i].arg = s)
                     => Subscribing(s)
           /\ Head(mail).op = "subscribe" => Subscribing(Head(mail).arg)
           /\ Apart => /\ Head(mail).op = "save" => \A x : x = Head(mail).arg => ~Mailed(x)'
                       /\ \A i, j \in 1..Len(mail') :
                             mail'[i].op = "save" /\ mail'[j].op = "save"
                             /\ mail'[i].arg = mail'[j].arg => i = j
  <1>1. /\ mail' \in Seq(Request) /\ Len(mail') = Len(mail) - 1 /\ Len(mail) >= 1
        /\ Head(mail) = mail[1] /\ Head(mail) \in Request
        /\ \A i \in 1..Len(mail) - 1 : mail'[i] = mail[i + 1]
    BY TailOf
  <1>2. Len(mail) \in Nat
    OBVIOUS
  <1>3. \A i \in 1..Len(mail') : i + 1 \in 1..Len(mail) /\ mail'[i] = mail[i + 1] /\ i \in Nat
    BY <1>1, <1>2
  <1>4. \A i \in 1..Len(mail) : i = 1 \/ (i - 1 \in 1..Len(mail') /\ mail[i] = mail'[i - 1])
    BY <1>1, <1>2
  <1>5. 1 \in 1..Len(mail)
    BY <1>1, <1>2
  <1>6. \A x : Mailed(x) <=> Mailed(x)' \/ (Head(mail).op = "save" /\ x = Head(mail).arg)
    BY <1>1, <1>3, <1>4, <1>5 DEF Mailed
  <1>7. \A s : (\E i \in 1..Len(mail') : mail'[i].op = "subscribe" /\ mail'[i].arg = s)
               => Subscribing(s)
    BY <1>3 DEF Subscribing
  <1>8. Head(mail).op = "subscribe" => Subscribing(Head(mail).arg)
    BY <1>1, <1>5 DEF Subscribing
  <1>9. ASSUME Apart
        PROVE  /\ Head(mail).op = "save" => \A x : x = Head(mail).arg => ~Mailed(x)'
               /\ \A i, j \in 1..Len(mail') :
                     mail'[i].op = "save" /\ mail'[j].op = "save"
                     /\ mail'[i].arg = mail'[j].arg => i = j
    <2>1. ASSUME Head(mail).op = "save", NEW i \in 1..Len(mail'),
                 mail'[i].op = "save", mail'[i].arg = Head(mail).arg
          PROVE  FALSE
      <3>1. 1 = i + 1
        BY <1>1, <1>3, <1>5, <1>9, <2>1 DEF Apart
      <3> QED BY <3>1, <1>3
    <2>2. ASSUME NEW i \in 1..Len(mail'), NEW j \in 1..Len(mail'),
                 mail'[i].op = "save", mail'[j].op = "save", mail'[i].arg = mail'[j].arg
          PROVE  i = j
      <3>1. i + 1 = j + 1
        BY <1>3, <1>9, <2>2 DEF Apart
      <3> QED BY <3>1, <1>3
    <2>3. Head(mail).op = "save" => \A x : x = Head(mail).arg => ~Mailed(x)'
      BY <2>1 DEF Mailed
    <2> QED BY <2>2, <2>3
  <1> QED BY <1>1, <1>6, <1>7, <1>8, <1>9

-----------------------------------------------------------------------------
\* What a step does to the sessions' frames.

\* Every frame of s is one it had, or is new and one of the sort.
Extended(s, S) ==
    /\ Len(shown'[s]) \in Nat /\ Len(shown[s]) <= Len(shown'[s])
    /\ \A i \in 1..Len(shown[s]) : shown'[s][i] = shown[s][i]
    /\ \A i \in Len(shown[s]) + 1..Len(shown'[s]) : shown'[s][i] \in S

LEMMA Sent1 ==
    ASSUME ChatTypeOK, NEW to, NEW S \in SUBSET Frame, NEW frames \in Seq(S), Send(to, frames)
    PROVE  /\ shown' \in [Sessions -> Seq(Frame)]
           /\ \A s \in Sessions :
                 /\ Extended(s, S)
                 /\ s \in to /\ session[s] = "open" =>
                       /\ Len(shown'[s]) = Len(shown[s]) + Len(frames)
                       /\ \A i \in 1..Len(frames) : shown'[s][Len(shown[s]) + i] = frames[i]
                 /\ ~(s \in to /\ session[s] = "open") => shown'[s] = shown[s]
  <1>1. frames \in Seq(Frame) /\ \A i \in 1..Len(frames) : frames[i] \in S
    <2>1. \A i \in 1..Len(frames) : frames[i] \in S
      OBVIOUS
    <2>2. \A i \in 1..Len(frames) : frames[i] \in Frame
      BY <2>1
    <2>3. frames \in [1..Len(frames) -> Frame] /\ Len(frames) \in Nat
      BY <2>2
    <2> QED BY <2>1, <2>3
  <1>2. ASSUME NEW s \in Sessions
        PROVE  /\ shown'[s] \in Seq(Frame) /\ Extended(s, S)
               /\ s \in to /\ session[s] = "open" =>
                     /\ Len(shown'[s]) = Len(shown[s]) + Len(frames)
                     /\ \A i \in 1..Len(frames) : shown'[s][Len(shown[s]) + i] = frames[i]
               /\ ~(s \in to /\ session[s] = "open") => shown'[s] = shown[s]
    <2>1. shown[s] \in Seq(Frame) /\ Len(shown[s]) \in Nat
      BY DEF ChatTypeOK
    <2>2. CASE s \in to /\ session[s] = "open"
      <3>1. shown'[s] = shown[s] \o frames
        BY <2>2 DEF Send
      <3>2. /\ shown[s] \o frames \in Seq(Frame)
            /\ Len(shown[s] \o frames) = Len(shown[s]) + Len(frames)
            /\ \A i \in 1..Len(shown[s]) : (shown[s] \o frames)[i] = shown[s][i]
            /\ \A i \in 1..Len(frames) : (shown[s] \o frames)[Len(shown[s]) + i] = frames[i]
            /\ \A i \in Len(shown[s]) + 1..Len(shown[s] \o frames) :
                  i - Len(shown[s]) \in 1..Len(frames)
                  /\ (shown[s] \o frames)[i] = frames[i - Len(shown[s])]
        BY <1>1, <2>1, Joined
      <3>3. Len(frames) \in Nat
        BY <1>1
      <3>4. Extended(s, S)
        BY <1>1, <2>1, <3>1, <3>2, <3>3 DEF Extended
      <3> QED BY <2>2, <3>1, <3>2, <3>4
    <2>3. CASE ~(s \in to /\ session[s] = "open")
      <3>1. shown'[s] = shown[s]
        BY <2>3 DEF Send
      <3> QED BY <2>1, <2>3, <3>1 DEF Extended
    <2> QED BY <2>2, <2>3
  <1>3. shown' = [s \in Sessions |-> shown'[s]]
    BY DEF Send
  <1>4. shown' \in [Sessions -> Seq(Frame)]
    BY <1>2, <1>3
  <1> QED BY <1>2, <1>4

LEMMA NothingSent ==
    ASSUME ChatTypeOK, UNCHANGED shown, NEW S
    PROVE  \A s \in Sessions : Extended(s, S)
  <1> SUFFICES ASSUME NEW s \in Sessions PROVE Extended(s, S)
    OBVIOUS
  <1>1. Len(shown[s]) \in Nat
    BY DEF ChatTypeOK
  <1> QED BY <1>1 DEF Extended

\* A frame pushed by a turn.
Pushes(t) == {Push(<<t, p>>) : p \in Parts} \cup {Push(<<t, Failure>>)}

LEMMA PushedFrames ==
    ASSUME NEW t \in Turns
    PROVE  /\ Pushes(t) \subseteq Frame
           /\ \A f \in Pushes(t) : f.how = "push" /\ ~IsNote(f.msg) /\ f.msg[1] = t
  <1>1. \A f \in Pushes(t) : (\E p \in Parts : f = Push(<<t, p>>)) \/ f = Push(<<t, Failure>>)
    BY DEF Pushes
  <1>2. ASSUME NEW p \in Parts, NEW f, f = Push(<<t, p>>)
        PROVE  f \in Frame /\ f.how = "push" /\ ~IsNote(f.msg) /\ f.msg[1] = t
    BY <1>2, TurnMessage
  <1>3. ASSUME NEW f, f = Push(<<t, Failure>>)
        PROVE  f \in Frame /\ f.how = "push" /\ ~IsNote(f.msg) /\ f.msg[1] = t
    BY <1>3, FailureMessage
  <1> QED BY <1>1, <1>2, <1>3

\* A session shows what the invariants say of it when it shows nothing new.
LEMMA FramesTyped ==
    ASSUME ChatTypeOK, NEW s \in Sessions, NEW i \in 1..Len(shown[s])
    PROVE  shown[s][i] \in Frame /\ Len(shown[s]) \in Nat
  BY DEF ChatTypeOK

-----------------------------------------------------------------------------
\* The steps of a turn, as they bear on messages and turns.

\* What holds of a step of t to the record new.
LEMMA TurnMoved ==
    ASSUME ChatTypeOK, TurnsSafe, NEW t \in Turns, NEW new \in Turn,
           TurnMoves(t, new), UNCHANGED unsaved, memory' = "up" => memory = "up",
           TurnSound(t)', Apart',
           \A u \in Turns \ {t}, p \in Parts : InTransit(<<u, p>>)' => InTransit(<<u, p>>),
           \A p \in Parts : InTransit(<<t, p>>)' =>
              new.pc \in {"save", "push"} /\ p = new.part /\ ~Settled(<<t, p>>),
           \A p \in Parts : Settled(<<t, p>>) =>
              p <= new.part /\ (new.pc \in {"idle", "name", "reply"} => p < new.part),
           turn[t].pc \notin {"idle", "name"} =>
              new.pc \notin {"idle", "name"} /\ (turn[t].named => new.named),
           \A s \in Sessions : Extended(s, Pushes(t)),
           \A s \in Sessions : \A i \in Len(shown[s]) + 1..Len(shown'[s]) :
              shown'[s][i].msg[2] # Failure =>
                 Settled(shown'[s][i].msg) /\ new.named /\ new.pc \notin {"idle", "name"}
    PROVE  TurnsSafe'
  <1>1. /\ turn' = [turn EXCEPT ![t] = new] /\ turn'[t] = new
        /\ \A u \in Turns \ {t} : turn'[u] = turn[u]
        /\ UNCHANGED <<queue, subscribers, inserting, accepted, owed, due, session, table>>
    BY DEF TurnMoves, channelVars, ChatTypeOK
  <1>2. \A m : Settled(m)' <=> Settled(m)
    BY <1>1 DEF Settled
  <1>3. \A u \in Turns : TurnSound(u)'
    BY <1>1 DEF TurnSound, TurnsSafe
  <1>4. TransitSound'
    BY <1>1, <1>2 DEF TransitSound, TurnsSafe
  <1>5. SettledSoFar'
    BY <1>1, <1>2 DEF SettledSoFar, TurnsSafe
  <1>6. PushesSound'
    <2> SUFFICES ASSUME NEW s \in Sessions, NEW i \in 1..Len(shown'[s]), NEW f,
                        f = shown'[s][i], f.how = "push"
                 PROVE  /\ f.msg[1] \in Turns
                        /\ f.msg[2] # Failure =>
                              /\ Settled(f.msg)'
                              /\ turn'[f.msg[1]].named
                              /\ turn'[f.msg[1]].pc \notin {"idle", "name"}
      BY DEF PushesSound
    <2>1. Len(shown[s]) \in Nat /\ Extended(s, Pushes(t))
      BY DEF ChatTypeOK
    <2>2. CASE i \in 1..Len(shown[s])
      <3>1. f = shown[s][i]
        BY <2>1, <2>2 DEF Extended
      <3>2. /\ f.msg[1] \in Turns
            /\ f.msg[2] # Failure =>
                  /\ Settled(f.msg) /\ turn[f.msg[1]].named
                  /\ turn[f.msg[1]].pc \notin {"idle", "name"}
        BY <2>2, <3>1 DEF PushesSound, TurnsSafe
      <3> QED BY <1>1, <1>2, <3>2
    <2>3. CASE i \in Len(shown[s]) + 1..Len(shown'[s])
      <3>1. f \in Pushes(t)
        BY <2>1, <2>3 DEF Extended
      <3>2. f.msg[1] = t
        BY <3>1, PushedFrames
      <3>3. f.msg[2] # Failure => Settled(f.msg) /\ new.named /\ new.pc \notin {"idle", "name"}
        BY <2>3
      <3> QED BY <1>1, <1>2, <3>2, <3>3
    <2>4. i \in 1..Len(shown[s]) \/ i \in Len(shown[s]) + 1..Len(shown'[s])
      BY <2>1
    <2> QED BY <2>2, <2>3, <2>4
  <1>7. TranscriptInOrder'
    BY <1>1 DEF TranscriptInOrder, TurnsSafe
  <1> QED BY <1>3, <1>4, <1>5, <1>6, <1>7 DEF TurnsSafe

\* The notifications do not see a step of a turn.
LEMMA NotesDoNotSee ==
    ASSUME ChatTypeOK, NotesSafe, NEW t \in Turns,
           UNCHANGED <<session, queue, subscribers, inserting, accepted, owed, due>>,
           \A n \in Notes : Mailed(<<n, 0>>)' => Mailed(<<n, 0>>),
           \A s : (\E i \in 1..Len(mail') : mail'[i].op = "subscribe" /\ mail'[i].arg = s)
                  => Subscribing(s),
           \A s \in Sessions : Extended(s, Pushes(t))
    PROVE  NotesSafe'
  <1>1. Sent' = Sent
    BY DEF Sent
  <1>2. NotesOnce' /\ QueueIsTheEnd'
    BY <1>1 DEF NotesOnce, QueueIsTheEnd, NotesSafe, Taken
  <1>3. ASSUME NEW s \in Sessions, NEW i \in 1..Len(shown'[s]), IsNote(shown'[s][i].msg)
        PROVE  i \in 1..Len(shown[s]) /\ shown'[s][i] = shown[s][i]
    <2>1. Extended(s, Pushes(t)) /\ Len(shown[s]) \in Nat
      BY DEF ChatTypeOK
    <2>2. i \notin Len(shown[s]) + 1..Len(shown'[s])
      BY <1>3, <2>1, PushedFrames DEF Extended
    <2>3. i \in 1..Len(shown[s])
      BY <2>1, <2>2 DEF Extended
    <2> QED BY <2>1, <2>3 DEF Extended
  <1>4. \A s \in Sessions : ShownFromBefore(s)' /\ ShownInOrder(s)'
    <2> SUFFICES ASSUME NEW s \in Sessions PROVE ShownFromBefore(s)' /\ ShownInOrder(s)'
      OBVIOUS
    <2>1. ShownFromBefore(s) /\ ShownInOrder(s)
      BY DEF NotesSafe
    <2>2. ShownFromBefore(s)'
      BY <1>1, <1>3, <2>1 DEF ShownFromBefore, IsNote
    <2>3. ShownInOrder(s)'
      <3> SUFFICES ASSUME NEW i \in 1..Len(shown'[s]), NEW j \in 1..Len(shown'[s]), i < j,
                          IsNote(shown'[s][i].msg), IsNote(shown'[s][j].msg),
                          NEW p \in 1..Sent', NEW q \in 1..Sent',
                          accepted[p] = shown'[s][i].msg[1],
                          accepted[q] = shown'[s][j].msg[1]
                   PROVE  p < q
        BY DEF ShownInOrder, IsNote
      <3>1. i \in 1..Len(shown[s]) /\ shown'[s][i] = shown[s][i]
        BY <1>3
      <3>2. j \in 1..Len(shown[s]) /\ shown'[s][j] = shown[s][j]
        BY <1>3
      <3> QED BY <1>1, <2>1, <3>1, <3>2 DEF ShownInOrder
    <2> QED BY <2>2, <2>3
  <1>5. ASSUME NEW s \in Sessions, NEW n, SentTo(s, n)
        PROVE  SentTo(s, n)'
    <2>1. Extended(s, Pushes(t)) /\ Len(shown[s]) \in Nat
      BY DEF ChatTypeOK
    <2>2. PICK i \in 1..Len(shown[s]) : shown[s][i] = Event(<<n, 0>>)
      BY <1>5 DEF SentTo, Contains
    <2> QED BY <2>1, <2>2 DEF SentTo, Contains, Extended
  <1>6. NothingMissed'
    <2>1. \A s \in Sessions : Subscribing(s)' => session'[s] # "none"
      BY DEF NothingMissed, NotesSafe, Subscribing
    <2>2. \A s \in subscribers' : session'[s] = "open" =>
             \A n \in due'[s] : Contains(queue', n) \/ SentTo(s, n)'
      BY <1>5 DEF NothingMissed, NotesSafe, ChatTypeOK
    <2> QED BY <2>1, <2>2 DEF NothingMissed, NotesSafe
  <1> QED BY <1>2, <1>4, <1>6 DEF NotesSafe

\* Types after a step of a turn.
LEMMA TurnTyped ==
    ASSUME ChatTypeOK, NEW t \in Turns, NEW new \in Turn, TurnMoves(t, new),
           mail' \in Seq(Request), shown' \in [Sessions -> Seq(Frame)],
           memory' \in {"up", "down"}, mishaps' \in 0..MaxMishaps, UNCHANGED unsaved
    PROVE  ChatTypeOK'
  BY DEF ChatTypeOK, TurnMoves, channelVars

\* A step that neither saves nor pushes anything.
QuietStep(t, new) ==
    /\ new \in Turn /\ TurnMoves(t, new) /\ TurnSound(t)'
    /\ mail' = mail /\ shown' = shown /\ unsaved' = unsaved
    /\ memory' \in {"up", "down"} /\ (memory' = "up" => memory = "up")
    /\ mishaps' \in 0..MaxMishaps
    /\ turn[t].pc \in {"save", "push"} => Settled(<<t, turn[t].part>>)
    /\ new.part >= turn[t].part /\ (new.pc = "reply" => new.part > turn[t].part)
    /\ new.pc # "idle" /\ (turn[t].pc = "idle" \/ new.pc # "name")
    /\ turn[t].pc = "idle" \/ (turn[t].named => new.named)

LEMMA QuietMove ==
    ASSUME ChatSafe, NEW t \in Turns, NEW new, QuietStep(t, new)
    PROVE  ChatSafe'
  <1> USE DEF QuietStep
  <1>1. ChatTypeOK /\ TurnsSafe /\ NotesSafe /\ turn[t] \in Turn /\ turn[t].part \in Nat
        /\ new.part \in Nat
    BY DEF ChatSafe, ChatTypeOK, Turn, Parts
  <1>2. UNCHANGED <<session, queue, subscribers, inserting, accepted, owed, due, table>>
    BY DEF TurnMoves, channelVars
  <1>3. \A m : (InTransit(m)' <=> InTransit(m)) /\ (Mailed(m)' <=> Mailed(m))
    BY <1>2 DEF InTransit, Mailed
  <1>4. Apart'
    BY <1>1, <1>2, <1>3 DEF Apart, TurnsSafe
  <1>5. \A p \in Parts : ~InTransit(<<t, p>>)
    BY <1>1 DEF TransitSound, TurnsSafe
  <1>6. \A p \in Parts : Settled(<<t, p>>) =>
           p <= new.part /\ (new.pc \in {"idle", "name", "reply"} => p < new.part)
    <2> SUFFICES ASSUME NEW p \in Parts, Settled(<<t, p>>)
                 PROVE  p <= new.part /\ (new.pc \in {"idle", "name", "reply"} => p < new.part)
      OBVIOUS
    <2>1. p \in Nat /\ p <= turn[t].part /\ (turn[t].pc = "idle" => p < turn[t].part)
      BY <1>1 DEF SettledSoFar, TurnsSafe, Parts
    <2> QED BY <1>1, <2>1
  <1>7. \A s \in Sessions : Extended(s, Pushes(t))
    BY <1>1, NothingSent
  <1>8. \A s \in Sessions : \A i \in Len(shown[s]) + 1..Len(shown'[s]) : FALSE
    BY <1>1, FramesTyped DEF ChatTypeOK
  <1>9. TurnsSafe'
    BY <1>1, <1>3, <1>4, <1>5, <1>6, <1>7, <1>8, TurnMoved
  <1>10. NotesSafe'
    BY <1>1, <1>2, <1>3, <1>7, NotesDoNotSee DEF Subscribing
  <1>11. ChatTypeOK'
    BY <1>1, TurnTyped DEF ChatTypeOK
  <1> QED BY <1>9, <1>10, <1>11 DEF ChatSafe

\* The current message is given to the channel manager.
LEMMA SavingMove ==
    ASSUME ChatSafe, NEW t \in Turns, NEW new \in Turn, TurnMoves(t, new),
           Deliver("save", <<t, turn[t].part>>),
           UNCHANGED <<shown, memory, mishaps, unsaved>>,
           TurnSound(t)', turn[t].pc \in {"name", "reply"},
           new.pc \in {"save", "push"}, new.part = turn[t].part,
           turn[t].pc # "name" => (turn[t].named => new.named)
    PROVE  ChatSafe'
  <1>1. ChatTypeOK /\ TurnsSafe /\ NotesSafe /\ turn[t] \in Turn /\ turn[t].part \in Parts
    BY DEF ChatSafe, ChatTypeOK, Turn
  <1>2. UNCHANGED <<session, queue, subscribers, inserting, accepted, owed, due, table>>
    BY DEF TurnMoves, channelVars
  <1> DEFINE m == <<t, turn[t].part>>
  <1>3. m \in Messages /\ ~IsNote(m)
    BY <1>1, TurnMessage
  <1>4. ~InTransit(m) /\ ~Settled(m)
    <2>1. ~InTransit(m)
      BY <1>1 DEF TransitSound, TurnsSafe
    <2>2. ~ (turn[t].part < turn[t].part)
      BY <1>1 DEF Parts
    <2> QED BY <1>1, <2>1, <2>2 DEF SettledSoFar, TurnsSafe
  <1>5. /\ mail' \in Seq(Request)
        /\ \A x : Mailed(x)' <=> Mailed(x) \/ x = m
        /\ \A s : (\E i \in 1..Len(mail') : mail'[i].op = "subscribe" /\ mail'[i].arg = s)
                  => Subscribing(s)
        /\ Apart'
    BY <1>1, <1>2, <1>3, <1>4, SaveDelivered DEF ChatTypeOK, TurnsSafe
  <1>6. \A x : InTransit(x)' <=> InTransit(x) \/ x = m
    BY <1>2, <1>5 DEF InTransit
  <1>7. \A u \in Turns \ {t}, p \in Parts : InTransit(<<u, p>>)' => InTransit(<<u, p>>)
    BY <1>6
  <1>8. \A p \in Parts : InTransit(<<t, p>>)' =>
           new.pc \in {"save", "push"} /\ p = new.part /\ ~Settled(<<t, p>>)
    BY <1>1, <1>4, <1>6 DEF TransitSound, TurnsSafe
  <1>9. \A p \in Parts : Settled(<<t, p>>) =>
           p <= new.part /\ (new.pc \in {"idle", "name", "reply"} => p < new.part)
    BY <1>1 DEF SettledSoFar, TurnsSafe
  <1>10. \A s \in Sessions : Extended(s, Pushes(t))
    BY <1>1, NothingSent
  <1>11. \A s \in Sessions : \A i \in Len(shown[s]) + 1..Len(shown'[s]) : FALSE
    BY <1>1, FramesTyped DEF ChatTypeOK
  <1>12. TurnsSafe'
    BY <1>1, <1>5, <1>7, <1>8, <1>9, <1>10, <1>11, TurnMoved
  <1>13. \A n \in Notes : <<n, 0>> # m
    BY ChatAssumption
  <1>14. NotesSafe'
    BY <1>1, <1>2, <1>5, <1>10, <1>13, NotesDoNotSee
  <1>15. ChatTypeOK'
    BY <1>1, <1>5, TurnTyped DEF ChatTypeOK
  <1> QED BY <1>12, <1>14, <1>15 DEF ChatSafe

\* A frame is pushed to the session: a failure, or a message that is saved.
PushStep(t, new, p) ==
    /\ new \in Turn /\ TurnMoves(t, new) /\ TurnSound(t)'
    /\ p \in Parts \cup {Failure} /\ Send({turn[t].session}, <<Push(<<t, p>>)>>)
    /\ p # Failure => Settled(<<t, p>>) /\ new.named
    /\ mail' = mail /\ memory' = memory /\ mishaps' = mishaps /\ unsaved' = unsaved
    /\ turn[t].pc \notin {"idle", "name", "save"}
    /\ turn[t].pc = "push" => Settled(<<t, turn[t].part>>)
    /\ new.pc \in {"done", "reply"}
    /\ new.part >= turn[t].part /\ (new.pc = "reply" => new.part > turn[t].part)
    /\ turn[t].named => new.named

LEMMA PushingMove ==
    ASSUME ChatSafe, NEW t \in Turns, NEW new, NEW p, PushStep(t, new, p)
    PROVE  ChatSafe'
  <1> USE DEF PushStep
  <1>1. ChatTypeOK /\ TurnsSafe /\ NotesSafe /\ turn[t] \in Turn /\ turn[t].part \in Nat
        /\ new.part \in Nat
    BY DEF ChatSafe, ChatTypeOK, Turn, Parts
  <1>2. UNCHANGED <<session, queue, subscribers, inserting, accepted, owed, due, table>>
    BY DEF TurnMoves, channelVars
  <1>3. \A m : (InTransit(m)' <=> InTransit(m)) /\ (Mailed(m)' <=> Mailed(m))
    BY <1>2 DEF InTransit, Mailed
  <1>4. Apart'
    BY <1>1, <1>2, <1>3 DEF Apart, TurnsSafe
  <1>5. \A q \in Parts : ~InTransit(<<t, q>>)
    BY <1>1 DEF TransitSound, TurnsSafe
  <1>6. \A q \in Parts : Settled(<<t, q>>) =>
           q <= new.part /\ (new.pc \in {"idle", "name", "reply"} => q < new.part)
    <2> SUFFICES ASSUME NEW q \in Parts, Settled(<<t, q>>)
                 PROVE  q <= new.part /\ (new.pc \in {"idle", "name", "reply"} => q < new.part)
      OBVIOUS
    <2>1. q \in Nat /\ q <= turn[t].part
      BY <1>1 DEF SettledSoFar, TurnsSafe, Parts
    <2> QED BY <1>1, <2>1
  <1> DEFINE f == Push(<<t, p>>)
             F == {f}
  <1>7. f \in Pushes(t) /\ f.msg = <<t, p>> /\ f.msg[2] = p /\ f \in Frame
    BY TurnMessage, FailureMessage DEF Pushes
  <1> HIDE DEF f
  <1>8. <<f>> \in Seq(F) /\ F \in SUBSET Frame /\ Send({turn[t].session}, <<f>>)
    BY <1>7 DEF f
  <1>9. /\ shown' \in [Sessions -> Seq(Frame)]
        /\ \A s \in Sessions : Extended(s, F)
    BY <1>1, <1>8, Sent1
  <1>10. \A s \in Sessions : Extended(s, Pushes(t))
    BY <1>7, <1>9 DEF Extended
  <1>11. \A s \in Sessions : \A i \in Len(shown[s]) + 1..Len(shown'[s]) :
            shown'[s][i].msg[2] # Failure =>
               Settled(shown'[s][i].msg) /\ new.named /\ new.pc \notin {"idle", "name"}
    BY <1>7, <1>9 DEF Extended
  <1>12. TurnsSafe'
    BY <1>1, <1>3, <1>4, <1>5, <1>6, <1>10, <1>11, TurnMoved
  <1>13. NotesSafe'
    BY <1>1, <1>2, <1>3, <1>10, NotesDoNotSee DEF Subscribing
  <1>14. ChatTypeOK'
    BY <1>1, <1>9, TurnTyped DEF ChatTypeOK
  <1> QED BY <1>12, <1>13, <1>14 DEF ChatSafe

-----------------------------------------------------------------------------
\* The steps of a turn.
LEMMA NewTurn ==
    ASSUME ChatTypeOK, NEW t \in Turns, NEW new \in Turn, TurnMoves(t, new)
    PROVE  turn'[t] = new
  BY DEF ChatTypeOK, TurnMoves

LEMMA PcOfTurn ==
    ASSUME ChatTypeOK, NEW t \in Turns,
           NEW pc \in {"save", "prompt", "recall", "answer", "push", "done"}
    PROVE  /\ [turn[t] EXCEPT !.pc = pc] \in Turn
           /\ [turn[t] EXCEPT !.pc = pc].pc = pc
           /\ [turn[t] EXCEPT !.pc = pc].part = turn[t].part
           /\ [turn[t] EXCEPT !.pc = pc].replies = turn[t].replies
           /\ [turn[t] EXCEPT !.pc = pc].named = turn[t].named
           /\ turn[t].part \in Nat
  <1>1. turn[t] \in Turn
    BY DEF ChatTypeOK
  <1> QED BY <1>1 DEF Turn, Parts

LEMMA AskSafe ==
    ASSUME ChatSafe, NEW t \in Turns, NEW s \in Sessions, Ask(t, s)
    PROVE  ChatSafe'
  <1> DEFINE new == [IdleTurn EXCEPT !.pc = "name", !.session = s]
  <1>1. /\ turn[t].pc = "idle" /\ TurnMoves(t, new)
        /\ UNCHANGED <<mail, shown, memory, mishaps, unsaved>>
    BY DEF Ask
  <1>2. new \in Turn /\ new.pc = "name" /\ new.part = 0
    <2>1. 0 \in Parts
      BY ChatAssumption DEF Parts
    <2>2. IdleTurn \in Turn /\ IdleTurn.part = 0
      BY <2>1 DEF IdleTurn, Turn
    <2> QED BY <2>2 DEF Turn
  <1> HIDE DEF new
  <1>3. turn[t].part = 0 /\ memory \in {"up", "down"} /\ mishaps \in 0..MaxMishaps
    BY <1>1 DEF ChatSafe, TurnsSafe, TurnSound, ChatTypeOK
  <1>4. TurnSound(t)'
    BY <1>1, <1>2, NewTurn DEF TurnSound, ChatSafe
  <1>9. QuietStep(t, new)
    BY <1>1, <1>2, <1>3, <1>4 DEF QuietStep
  <1> QED BY <1>9, QuietMove

LEMMA SaveQuestionSafe ==
    ASSUME ChatSafe, NEW t \in Turns, SaveQuestion(t)
    PROVE  ChatSafe'
  <1> DEFINE new == [turn[t] EXCEPT !.pc = "save", !.named = (memory = "up")]
  <1>1. /\ turn[t].pc = "name" /\ TurnMoves(t, new) /\ Deliver("save", <<t, 0>>)
        /\ UNCHANGED <<shown, memory, mishaps, unsaved>>
    BY DEF SaveQuestion
  <1>2. turn[t] \in Turn /\ turn[t].part = 0
    BY <1>1 DEF ChatSafe, TurnsSafe, TurnSound, ChatTypeOK
  <1>3. new \in Turn /\ new.pc = "save" /\ new.part = 0 /\ new.named = (memory = "up")
    <2> DEFINE b == (memory = "up")
    <2>1. b \in BOOLEAN
      OBVIOUS
    <2> HIDE DEF b
    <2> QED BY <1>2, <2>1 DEF Turn
  <1> HIDE DEF new
  <1>4. TurnSound(t)'
    BY <1>1, <1>3, NewTurn DEF TurnSound, ChatSafe
  <1> QED BY <1>1, <1>2, <1>3, <1>4, SavingMove

LEMMA AskAgentSafe ==
    ASSUME ChatSafe, NEW t \in Turns, AskAgent(t)
    PROVE  ChatSafe'
  <1> DEFINE new == [turn[t] EXCEPT !.pc = "prompt"]
  <1>1. /\ turn[t].pc = "save" /\ Settled(<<t, 0>>) /\ TurnMoves(t, new)
        /\ UNCHANGED <<mail, shown, memory, mishaps, unsaved>>
    BY DEF AskAgent
  <1>2. /\ new \in Turn /\ new.pc = "prompt" /\ new.part = turn[t].part
        /\ new.named = turn[t].named /\ turn[t].part \in Nat
    BY PcOfTurn DEF ChatSafe
  <1> HIDE DEF new
  <1>3. /\ turn[t].part = 0 /\ memory \in {"up", "down"} /\ mishaps \in 0..MaxMishaps
        /\ memory = "up" => turn[t].named
    BY <1>1 DEF ChatSafe, TurnsSafe, TurnSound, ChatTypeOK
  <1>4. TurnSound(t)'
    BY <1>1, <1>2, <1>3, NewTurn DEF TurnSound, ChatSafe
  <1>9. QuietStep(t, new)
    BY <1>1, <1>2, <1>3, <1>4 DEF QuietStep
  <1> QED BY <1>9, QuietMove

LEMMA PromptNameSafe ==
    ASSUME ChatSafe, NEW t \in Turns, PromptName(t)
    PROVE  ChatSafe'
  <1> DEFINE new == [turn[t] EXCEPT !.pc = "recall"]
  <1>1. /\ turn[t].pc = "prompt" /\ memory = "up" /\ TurnMoves(t, new)
        /\ UNCHANGED <<mail, shown, memory, mishaps, unsaved>>
    BY DEF PromptName
  <1>2. /\ new \in Turn /\ new.pc = "recall" /\ new.part = turn[t].part
        /\ new.named = turn[t].named /\ turn[t].part \in Nat
    BY PcOfTurn DEF ChatSafe
  <1> HIDE DEF new
  <1>3. /\ turn[t].part = 0 /\ memory \in {"up", "down"} /\ mishaps \in 0..MaxMishaps
        /\ turn[t].named
    BY <1>1 DEF ChatSafe, TurnsSafe, TurnSound, ChatTypeOK
  <1>4. TurnSound(t)'
    BY <1>1, <1>2, <1>3, NewTurn DEF TurnSound, ChatSafe
  <1>9. QuietStep(t, new)
    BY <1>1, <1>2, <1>3, <1>4 DEF QuietStep
  <1> QED BY <1>9, QuietMove

\* The memory may answer, or be lost in answering.
LEMMA RecallSafe ==
    ASSUME ChatSafe, NEW t \in Turns, Recall(t) \/ RecallFails(t)
    PROVE  ChatSafe'
  <1> DEFINE new == [turn[t] EXCEPT !.pc = "answer"]
  <1>1. /\ turn[t].pc = "recall" /\ TurnMoves(t, new)
        /\ UNCHANGED <<mail, shown, unsaved>>
        /\ memory' \in {memory, "down"} /\ mishaps' \in {mishaps} \cup 0..MaxMishaps
    BY ChatAssumption DEF Recall, RecallFails, Mishap, ChatSafe, ChatTypeOK
  <1>2. /\ new \in Turn /\ new.pc = "answer" /\ new.part = turn[t].part
        /\ new.named = turn[t].named /\ turn[t].part \in Nat
    BY PcOfTurn DEF ChatSafe
  <1> HIDE DEF new
  <1>3. /\ turn[t].part = 0 /\ memory \in {"up", "down"} /\ mishaps \in 0..MaxMishaps
        /\ turn[t].named
    BY <1>1 DEF ChatSafe, TurnsSafe, TurnSound, ChatTypeOK
  <1>4. TurnSound(t)'
    BY <1>1, <1>2, <1>3, NewTurn DEF TurnSound, ChatSafe
  <1>9. QuietStep(t, new)
    BY <1>1, <1>2, <1>3, <1>4 DEF QuietStep
  <1> QED BY <1>9, QuietMove

LEMMA AnswerSafe ==
    ASSUME ChatSafe, NEW t \in Turns, Answer(t)
    PROVE  ChatSafe'
  <1>1. PICK k \in Parts :
           TurnMoves(t, [turn[t] EXCEPT !.pc = IF k = 0 THEN "empty" ELSE "reply",
                                        !.replies = k, !.part = IF k = 0 THEN 0 ELSE 1])
    BY DEF Answer
  <1> DEFINE pc == IF k = 0 THEN "empty" ELSE "reply"
             part == IF k = 0 THEN 0 ELSE 1
             new == [turn[t] EXCEPT !.pc = pc, !.replies = k, !.part = part]
  <1>2. turn[t].pc = "answer" /\ TurnMoves(t, new)
        /\ UNCHANGED <<mail, shown, memory, mishaps, unsaved>>
    BY <1>1 DEF Answer
  <1>3. /\ k \in Nat /\ part \in Parts /\ part <= k /\ part \in Nat
        /\ pc \in {"empty", "reply"} /\ (pc = "reply" => part = 1)
    BY ChatAssumption DEF Parts
  <1>4. /\ turn[t] \in Turn /\ turn[t].part = 0 /\ turn[t].named
        /\ memory \in {"up", "down"} /\ mishaps \in 0..MaxMishaps
    BY <1>2 DEF ChatSafe, TurnsSafe, TurnSound, ChatTypeOK
  <1> HIDE DEF pc, part
  <1>5. /\ new \in Turn /\ new.pc = pc /\ new.part = part /\ new.replies = k
        /\ new.named = turn[t].named
    BY <1>3, <1>4 DEF Turn
  <1> HIDE DEF new
  <1>6. TurnSound(t)'
    BY <1>2, <1>3, <1>4, <1>5, NewTurn DEF TurnSound, ChatSafe
  <1>9. QuietStep(t, new)
    BY <1>2, <1>3, <1>4, <1>5, <1>6 DEF QuietStep
  <1> QED BY <1>9, QuietMove

LEMMA SaveReplySafe ==
    ASSUME ChatSafe, NEW t \in Turns, SaveReply(t)
    PROVE  ChatSafe'
  <1> DEFINE new == [turn[t] EXCEPT !.pc = "push"]
  <1>1. /\ turn[t].pc = "reply" /\ TurnMoves(t, new) /\ Deliver("save", <<t, turn[t].part>>)
        /\ UNCHANGED <<shown, memory, mishaps, unsaved>>
    BY DEF SaveReply
  <1>2. /\ new \in Turn /\ new.pc = "push" /\ new.part = turn[t].part
        /\ new.named = turn[t].named /\ new.replies = turn[t].replies
    BY PcOfTurn DEF ChatSafe
  <1> HIDE DEF new
  <1>3. turn[t].named /\ turn[t].part <= turn[t].replies
    BY <1>1 DEF ChatSafe, TurnsSafe, TurnSound
  <1>4. TurnSound(t)'
    BY <1>1, <1>2, <1>3, NewTurn DEF TurnSound, ChatSafe
  <1> QED BY <1>1, <1>2, <1>4, SavingMove

LEMMA RefuseSafe ==
    ASSUME ChatSafe, NEW t \in Turns, Refuse(t), turn[t].pc \in {"prompt", "answer"}
    PROVE  ChatSafe'
  <1> DEFINE new == [turn[t] EXCEPT !.pc = "done"]
  <1>1. /\ TurnMoves(t, new) /\ Send({turn[t].session}, <<Push(<<t, Failure>>)>>)
        /\ UNCHANGED <<mail, memory, mishaps, unsaved>>
    BY DEF Refuse
  <1>2. /\ new \in Turn /\ new.pc = "done" /\ new.part = turn[t].part
        /\ new.named = turn[t].named /\ turn[t].part \in Nat
    BY PcOfTurn DEF ChatSafe
  <1> HIDE DEF new
  <1>3. TurnSound(t)'
    BY <1>1, <1>2, NewTurn DEF TurnSound, ChatSafe
  <1>9. PushStep(t, new, Failure)
    BY <1>1, <1>2, <1>3 DEF PushStep
  <1> QED BY <1>9, PushingMove

LEMMA PushReplySafe ==
    ASSUME ChatSafe, NEW t \in Turns, PushReply(t)
    PROVE  ChatSafe'
  <1> DEFINE new == IF turn[t].part = turn[t].replies
                    THEN [turn[t] EXCEPT !.pc = "done"]
                    ELSE [turn[t] EXCEPT !.pc = "reply", !.part = @ + 1]
             p == turn[t].part
  <1>1. /\ turn[t].pc = "push" /\ Settled(<<t, p>>)
        /\ Send({turn[t].session}, <<Push(<<t, p>>)>>) /\ TurnMoves(t, new)
        /\ UNCHANGED <<mail, memory, mishaps, unsaved>>
    BY DEF PushReply, PushAndGoOn
  <1>2. /\ turn[t] \in Turn /\ turn[t].named /\ turn[t].part <= turn[t].replies
        /\ turn[t].part \in Nat /\ turn[t].replies \in Parts
    BY <1>1 DEF ChatSafe, TurnsSafe, TurnSound, ChatTypeOK, Turn, Parts
  <1>3. /\ new \in Turn /\ new.named /\ new.pc \in {"done", "reply"}
        /\ new.replies = turn[t].replies
        /\ new.part >= turn[t].part
        /\ new.pc = "reply" => new.part > turn[t].part /\ new.part <= new.replies
    <2>1. CASE turn[t].part = turn[t].replies
      BY <1>2, <2>1 DEF Turn
    <2>2. CASE turn[t].part # turn[t].replies
      <3> DEFINE next == turn[t].part + 1
      <3>1. next \in Parts /\ next > turn[t].part /\ next <= turn[t].replies
        BY <1>2, <2>2, ChatAssumption DEF Parts
      <3>2. new = [turn[t] EXCEPT !.pc = "reply", !.part = next]
        BY <2>2
      <3> HIDE DEF next, new
      <3>3. new \in Turn /\ new.pc = "reply" /\ new.part = next /\ new.named
            /\ new.replies = turn[t].replies
        BY <1>2, <3>1, <3>2 DEF Turn
      <3> QED BY <1>2, <3>1, <3>3 DEF Parts
    <2> QED BY <2>1, <2>2
  <1> HIDE DEF new
  <1>4. TurnSound(t)'
    BY <1>1, <1>3, NewTurn DEF TurnSound, ChatSafe
  <1>5. p \in Parts /\ p = turn[t].part
    BY <1>2 DEF Turn
  <1> HIDE DEF p
  <1>9. PushStep(t, new, p)
    BY <1>1, <1>2, <1>3, <1>4, <1>5 DEF PushStep
  <1> QED BY <1>9, PushingMove

-----------------------------------------------------------------------------
\* The steps of the sessions and the channel manager.

\* Turns and messages stay as they are, but that a message may arrive.
LEMMA TurnsKept ==
    ASSUME ChatTypeOK, TurnsSafe, UNCHANGED turn, memory' = memory, Apart',
           \A t \in Turns, p \in Parts : InTransit(<<t, p>>)' => InTransit(<<t, p>>),
           \A m : Settled(m) => Settled(m)',
           \A t \in Turns, p \in Parts : Settled(<<t, p>>)' =>
              Settled(<<t, p>>) \/ (InTransit(<<t, p>>) /\ ~InTransit(<<t, p>>)'),
           \A s \in Sessions : \A i \in 1..Len(shown'[s]) :
              \/ shown'[s][i].how # "push"
              \/ \E k \in 1..Len(shown[s]) : shown'[s][i] = shown[s][k],
           TranscriptInOrder'
    PROVE  TurnsSafe'
  <1>1. \A t \in Turns : TurnSound(t)'
    BY DEF TurnSound, TurnsSafe
  <1>2. TransitSound'
    <2> SUFFICES ASSUME NEW t \in Turns, NEW p \in Parts, InTransit(<<t, p>>)'
                 PROVE  turn[t].pc \in {"save", "push"} /\ p = turn[t].part
                        /\ ~Settled(<<t, p>>)'
      BY DEF TransitSound
    <2> QED BY DEF TransitSound, TurnsSafe
  <1>3. SettledSoFar'
    <2> SUFFICES ASSUME NEW t \in Turns, NEW p \in Parts, Settled(<<t, p>>)'
                 PROVE  p <= turn[t].part
                        /\ (turn[t].pc \in {"idle", "name", "reply"} => p < turn[t].part)
      BY DEF SettledSoFar
    <2>1. CASE Settled(<<t, p>>)
      BY <2>1 DEF SettledSoFar, TurnsSafe
    <2>2. CASE InTransit(<<t, p>>)
      <3>1. turn[t].pc \in {"save", "push"} /\ p = turn[t].part
        BY <2>2 DEF TransitSound, TurnsSafe
      <3>2. p \in Nat
        BY DEF Parts
      <3> QED BY <3>1, <3>2
    <2> QED BY <2>1, <2>2
  <1>4. PushesSound'
    <2> SUFFICES ASSUME NEW s \in Sessions, NEW i \in 1..Len(shown'[s]), NEW f,
                        f = shown'[s][i], f.how = "push"
                 PROVE  /\ f.msg[1] \in Turns
                        /\ f.msg[2] # Failure =>
                              /\ Settled(f.msg)'
                              /\ turn[f.msg[1]].named
                              /\ turn[f.msg[1]].pc \notin {"idle", "name"}
      BY DEF PushesSound
    <2>1. PICK k \in 1..Len(shown[s]) : f = shown[s][k]
      OBVIOUS
    <2>2. /\ f.msg[1] \in Turns
          /\ f.msg[2] # Failure =>
                /\ Settled(f.msg) /\ turn[f.msg[1]].named
                /\ turn[f.msg[1]].pc \notin {"idle", "name"}
      BY <2>1 DEF PushesSound, TurnsSafe
    <2> QED BY <2>2
  <1> QED BY <1>1, <1>2, <1>3, <1>4 DEF TurnsSafe

\* The same, where neither table nor frames change.
LEMMA TurnsUntouched ==
    ASSUME ChatSafe, UNCHANGED <<turn, table, unsaved, memory>>,
           \A s \in Sessions : shown'[s] = shown[s] \/ shown'[s] = <<>>,
           \A t \in Turns, p \in Parts : InTransit(<<t, p>>)' => InTransit(<<t, p>>),
           Apart'
    PROVE  TurnsSafe'
  <1>1. ChatTypeOK /\ TurnsSafe
    BY DEF ChatSafe
  <1>2. \A m : Settled(m)' <=> Settled(m)
    BY DEF Settled
  <1>3. TranscriptInOrder'
    BY <1>1 DEF TurnsSafe, TranscriptInOrder
  <1>4. \A s \in Sessions : \A i \in 1..Len(shown'[s]) :
           shown'[s][i].how # "push" \/ \E k \in 1..Len(shown[s]) : shown'[s][i] = shown[s][k]
    <2> SUFFICES ASSUME NEW s \in Sessions, NEW i \in 1..Len(shown'[s])
                 PROVE  \E k \in 1..Len(shown[s]) : shown'[s][i] = shown[s][k]
      OBVIOUS
    <2>1. shown'[s] # <<>>
      OBVIOUS
    <2> QED BY <2>1
  <1> QED BY <1>1, <1>2, <1>3, <1>4, TurnsKept

\* Where queue, acceptance and frames stay, or the frames of some go.
LEMMA NotesUntouched ==
    ASSUME NotesSafe, UNCHANGED <<queue, accepted>>,
           \A s \in Sessions : shown'[s] = shown[s] \/ shown'[s] = <<>>,
           \A n \in Notes : Mailed(<<n, 0>>)' => ~Taken(n),
           \A n \in Notes : <<n, 0>> \in inserting' => Taken(n)
    PROVE  /\ NotesOnce' /\ QueueIsTheEnd'
           /\ \A s \in Sessions : ShownFromBefore(s)' /\ ShownInOrder(s)'
  <1>1. Sent' = Sent
    BY DEF Sent
  <1>2. NotesOnce' /\ QueueIsTheEnd'
    BY <1>1 DEF NotesOnce, QueueIsTheEnd, NotesSafe, Taken
  <1>3. ASSUME NEW s \in Sessions
        PROVE  ShownFromBefore(s)' /\ ShownInOrder(s)'
    <2>1. ShownFromBefore(s) /\ ShownInOrder(s)
      BY DEF NotesSafe
    <2>2. CASE shown'[s] = shown[s]
      BY <1>1, <2>1, <2>2 DEF ShownFromBefore, ShownInOrder
    <2>3. CASE shown'[s] = <<>>
      BY <2>3 DEF ShownFromBefore, ShownInOrder
    <2> QED BY <2>2, <2>3
  <1> QED BY <1>2, <1>3

LEMMA ConnectSafe ==
    ASSUME ChatSafe, NEW s \in Sessions, Connect(s)
    PROVE  ChatSafe'
  <1>1. /\ session[s] = "none" /\ session' = [session EXCEPT ![s] = "open"]
        /\ Deliver("subscribe", s)
        /\ UNCHANGED <<queue, subscribers, inserting, accepted, owed, due,
                       table, shown, turn, memory, mishaps, unsaved>>
    BY DEF Connect, channelVars
  <1>2. ChatTypeOK /\ TurnsSafe /\ NotesSafe /\ Apart /\ NothingMissed /\ NotesOnce
    BY DEF ChatSafe, TurnsSafe, NotesSafe
  <1>3. /\ mail' \in Seq(Request)
        /\ \A x : Mailed(x)' <=> Mailed(x)
        /\ \A c : (\E i \in 1..Len(mail') : mail'[i].op = "subscribe" /\ mail'[i].arg = c)
                  => Subscribing(c) \/ c = s
        /\ Apart'
    BY <1>1, <1>2, OtherDelivered DEF ChatTypeOK
  <1>4. ChatTypeOK'
    BY <1>1, <1>2, <1>3 DEF ChatTypeOK
  <1>5. TurnsSafe'
    BY <1>1, <1>3, TurnsUntouched DEF InTransit
  <1>6. /\ NotesOnce' /\ QueueIsTheEnd'
        /\ \A c \in Sessions : ShownFromBefore(c)' /\ ShownInOrder(c)'
    BY <1>1, <1>2, <1>3, NotesUntouched DEF NotesOnce
  <1>7. NothingMissed'
    <2>1. \A c \in Sessions : Subscribing(c)' => session'[c] # "none"
      BY <1>1, <1>2, <1>3 DEF NothingMissed, Subscribing, ChatTypeOK
    <2>2. s \notin subscribers
      BY <1>1, <1>2 DEF NothingMissed, Subscribing
    <2>3. \A c \in subscribers : session'[c] = session[c]
      BY <1>1, <1>2, <2>2 DEF ChatTypeOK
    <2>4. \A c \in subscribers' : session'[c] = "open" =>
             \A n \in due'[c] : Contains(queue', n) \/ SentTo(c, n)'
      BY <1>1, <1>2, <2>3 DEF NothingMissed, SentTo
    <2> QED BY <1>1, <1>2, <2>1, <2>4 DEF NothingMissed
  <1> QED BY <1>4, <1>5, <1>6, <1>7 DEF ChatSafe, NotesSafe

LEMMA DisconnectSafe ==
    ASSUME ChatSafe, NEW s \in Sessions, Disconnect(s)
    PROVE  ChatSafe'
  <1>1. /\ session' = [session EXCEPT ![s] = "closed"]
        /\ Deliver("unsubscribe", s) /\ shown' = [shown EXCEPT ![s] = <<>>]
        /\ UNCHANGED <<queue, subscribers, inserting, accepted, owed, due,
                       table, turn, memory, mishaps, unsaved>>
    BY DEF Disconnect, channelVars
  <1>2. ChatTypeOK /\ TurnsSafe /\ NotesSafe /\ Apart /\ NothingMissed /\ NotesOnce
    BY DEF ChatSafe, TurnsSafe, NotesSafe
  <1>3. /\ mail' \in Seq(Request)
        /\ \A x : Mailed(x)' <=> Mailed(x)
        /\ \A c : (\E i \in 1..Len(mail') : mail'[i].op = "subscribe" /\ mail'[i].arg = c)
                  => Subscribing(c) \/ (FALSE /\ c = s)
        /\ Apart'
    BY <1>1, <1>2, OtherDelivered DEF ChatTypeOK
  <1>4. /\ shown'[s] = <<>> /\ session'[s] = "closed"
        /\ \A c \in Sessions \ {s} : shown'[c] = shown[c] /\ session'[c] = session[c]
    BY <1>1, <1>2 DEF ChatTypeOK
  <1>5. ChatTypeOK'
    BY <1>1, <1>2, <1>3 DEF ChatTypeOK
  <1>6. TurnsSafe'
    BY <1>1, <1>3, <1>4, TurnsUntouched DEF InTransit
  <1>7. /\ NotesOnce' /\ QueueIsTheEnd'
        /\ \A c \in Sessions : ShownFromBefore(c)' /\ ShownInOrder(c)'
    BY <1>1, <1>2, <1>3, <1>4, NotesUntouched DEF NotesOnce
  <1>8. NothingMissed'
    <2>1. \A c \in Sessions : Subscribing(c)' => session'[c] # "none"
      BY <1>1, <1>2, <1>3, <1>4 DEF NothingMissed, Subscribing
    <2>2. \A c \in subscribers' : session'[c] = "open" =>
             \A n \in due'[c] : Contains(queue', n) \/ SentTo(c, n)'
      BY <1>1, <1>2, <1>4 DEF NothingMissed, SentTo, ChatTypeOK
    <2> QED BY <1>1, <1>2, <2>1, <2>2 DEF NothingMissed
  <1> QED BY <1>5, <1>6, <1>7, <1>8 DEF ChatSafe, NotesSafe

LEMMA NotifySafe ==
    ASSUME ChatSafe, NEW n \in Notes, Notify(n)
    PROVE  ChatSafe'
  <1> DEFINE m == <<n, 0>>
  <1>1. /\ \A i \in 1..Len(mail) : mail[i].arg # m
        /\ \A i \in 1..Len(accepted) : accepted[i] # n
        /\ Deliver("save", m)
        /\ UNCHANGED <<queue, subscribers, inserting, accepted, owed, due, session,
                       table, shown, turn, memory, mishaps, unsaved>>
    <2>1. DOMAIN mail = 1..Len(mail) /\ DOMAIN accepted = 1..Len(accepted)
      BY DEF ChatSafe, ChatTypeOK
    <2>2. (~ \E i \in DOMAIN mail : mail[i].arg = m) /\ Deliver("save", m)
      BY DEF Notify
    <2>3. ~ \E i \in DOMAIN accepted : accepted[i] = n
      BY DEF Notify
    <2>4. UNCHANGED <<queue, subscribers, inserting, accepted, owed, due, session,
                      table, shown, turn, memory, mishaps, unsaved>>
      BY DEF Notify, channelVars
    <2> HIDE DEF m
    <2> QED BY <2>1, <2>2, <2>3, <2>4
  <1>2. ChatTypeOK /\ TurnsSafe /\ NotesSafe /\ Apart /\ NothingMissed /\ NotesOnce
    BY DEF ChatSafe, TurnsSafe, NotesSafe
  <1>3. m \in Messages /\ \A t \in Turns, p \in Parts : <<t, p>> # m
    BY NoteMessage, ChatAssumption
  <1>4. ~InTransit(m) /\ ~Taken(n)
    BY <1>1, <1>2 DEF InTransit, Mailed, Taken, NotesOnce
  <1>5. /\ mail' \in Seq(Request)
        /\ \A x : Mailed(x)' <=> Mailed(x) \/ x = m
        /\ \A c : (\E i \in 1..Len(mail') : mail'[i].op = "subscribe" /\ mail'[i].arg = c)
                  => Subscribing(c)
        /\ Apart'
    <2> HIDE DEF m
    <2> QED BY <1>1, <1>2, <1>3, <1>4, SaveDelivered DEF ChatTypeOK
  <1>6. ChatTypeOK'
    BY <1>1, <1>2, <1>5 DEF ChatTypeOK
  <1>7. TurnsSafe'
    BY <1>1, <1>3, <1>5, TurnsUntouched DEF InTransit
  <1>8. /\ NotesOnce' /\ QueueIsTheEnd'
        /\ \A c \in Sessions : ShownFromBefore(c)' /\ ShownInOrder(c)'
    BY <1>1, <1>2, <1>4, <1>5, NotesUntouched DEF NotesOnce
  <1>9. NothingMissed'
    <2>1. \A c \in Sessions : Subscribing(c)' => session'[c] # "none"
      BY <1>1, <1>2, <1>5 DEF NothingMissed, Subscribing
    <2> QED BY <1>1, <1>2, <2>1 DEF NothingMissed, SentTo
  <1> QED BY <1>6, <1>7, <1>8, <1>9 DEF ChatSafe, NotesSafe


-----------------------------------------------------------------------------
\* The handlers of the channel manager.

LEMMA HandleSubscribeSafe ==
    ASSUME ChatSafe, HandleSubscribe
    PROVE  ChatSafe'
  <1> DEFINE c == Head(mail).arg
  <1>1. /\ mail # <<>> /\ Head(mail).op = "subscribe" /\ mail' = Tail(mail)
        /\ subscribers' = subscribers \cup {c}
        /\ due' = [due EXCEPT ![c] = owed] /\ owed' = {}
        /\ UNCHANGED <<session, queue, inserting, accepted, table, shown, turn,
                       memory, mishaps, unsaved>>
    BY DEF HandleSubscribe
  <1>2. ChatTypeOK /\ TurnsSafe /\ NotesSafe /\ Apart /\ NothingMissed /\ NotesOnce
    BY DEF ChatSafe, TurnsSafe, NotesSafe
  <1>3. mail \in Seq(Request)
    BY <1>2 DEF ChatTypeOK
  <1>4. /\ mail' \in Seq(Request) /\ Head(mail) \in Request
        /\ \A x : Mailed(x) <=> Mailed(x)' \/ (Head(mail).op = "save" /\ x = Head(mail).arg)
        /\ \A s : (\E i \in 1..Len(mail') : mail'[i].op = "subscribe" /\ mail'[i].arg = s)
                  => Subscribing(s)
        /\ Subscribing(c)
        /\ \A i, j \in 1..Len(mail') :
              mail'[i].op = "save" /\ mail'[j].op = "save"
              /\ mail'[i].arg = mail'[j].arg => i = j
    BY <1>1, <1>2, <1>3, Handled
  <1>5. c \in Sessions
    BY <1>1, <1>4, RequestParts
  <1>6. \A x : Mailed(x)' <=> Mailed(x)
    BY <1>1, <1>4
  <1> HIDE DEF c
  <1>7. Apart'
    BY <1>1, <1>2, <1>4, <1>6 DEF Apart
  <1>8. ChatTypeOK'
    BY <1>1, <1>2, <1>4, <1>5 DEF ChatTypeOK
  <1>9. TurnsSafe'
    BY <1>1, <1>6, <1>7, TurnsUntouched DEF InTransit
  <1>10. /\ NotesOnce' /\ QueueIsTheEnd'
         /\ \A s \in Sessions : ShownFromBefore(s)' /\ ShownInOrder(s)'
    BY <1>1, <1>2, <1>6, NotesUntouched DEF NotesOnce
  <1>11. NothingMissed'
    <2>1. \A s \in Sessions : Subscribing(s)' => session'[s] # "none"
      BY <1>1, <1>2, <1>4 DEF NothingMissed, Subscribing
    <2>2. ASSUME NEW s \in subscribers', session'[s] = "open", NEW n \in due'[s]
          PROVE  Contains(queue', n) \/ SentTo(s, n)'
      <3>1. s \in Sessions
        BY <1>1, <1>2, <1>5, <2>2 DEF ChatTypeOK
      <3>2. CASE s = c
        <4>1. n \in owed
          BY <1>1, <1>2, <1>5, <2>2, <3>2 DEF ChatTypeOK
        <4> QED BY <1>1, <1>2, <4>1 DEF NothingMissed
      <3>3. CASE s # c
        <4>1. s \in subscribers /\ n \in due[s]
          BY <1>1, <1>2, <2>2, <3>1, <3>3 DEF ChatTypeOK
        <4> QED BY <1>1, <1>2, <2>2, <4>1 DEF NothingMissed, SentTo
      <3> QED BY <3>2, <3>3
    <2> QED BY <1>1, <2>1, <2>2 DEF NothingMissed
  <1> QED BY <1>8, <1>9, <1>10, <1>11 DEF ChatSafe, NotesSafe

LEMMA HandleUnsubscribeSafe ==
    ASSUME ChatSafe, HandleUnsubscribe
    PROVE  ChatSafe'
  <1>1. /\ mail # <<>> /\ Head(mail).op = "unsubscribe" /\ mail' = Tail(mail)
        /\ subscribers' = subscribers \ {Head(mail).arg}
        /\ UNCHANGED <<session, queue, inserting, accepted, owed, due, table, shown, turn,
                       memory, mishaps, unsaved>>
    BY DEF HandleUnsubscribe
  <1>2. ChatTypeOK /\ TurnsSafe /\ NotesSafe /\ Apart /\ NothingMissed /\ NotesOnce
    BY DEF ChatSafe, TurnsSafe, NotesSafe
  <1>3. mail \in Seq(Request)
    BY <1>2 DEF ChatTypeOK
  <1>4. /\ mail' \in Seq(Request)
        /\ \A x : Mailed(x) <=> Mailed(x)' \/ (Head(mail).op = "save" /\ x = Head(mail).arg)
        /\ \A s : (\E i \in 1..Len(mail') : mail'[i].op = "subscribe" /\ mail'[i].arg = s)
                  => Subscribing(s)
        /\ \A i, j \in 1..Len(mail') :
              mail'[i].op = "save" /\ mail'[j].op = "save"
              /\ mail'[i].arg = mail'[j].arg => i = j
    BY <1>1, <1>2, <1>3, Handled
  <1>5. \A x : Mailed(x)' <=> Mailed(x)
    BY <1>1, <1>4
  <1>6. Apart'
    BY <1>1, <1>2, <1>4, <1>5 DEF Apart
  <1>7. ChatTypeOK'
    BY <1>1, <1>2, <1>4 DEF ChatTypeOK
  <1>8. TurnsSafe'
    BY <1>1, <1>5, <1>6, TurnsUntouched DEF InTransit
  <1>9. /\ NotesOnce' /\ QueueIsTheEnd'
        /\ \A s \in Sessions : ShownFromBefore(s)' /\ ShownInOrder(s)'
    BY <1>1, <1>2, <1>5, NotesUntouched DEF NotesOnce
  <1>10. NothingMissed'
    <2>1. \A s \in Sessions : Subscribing(s)' => session'[s] # "none"
      BY <1>1, <1>2, <1>4 DEF NothingMissed, Subscribing
    <2> QED BY <1>1, <1>2, <2>1 DEF NothingMissed, SentTo
  <1> QED BY <1>7, <1>8, <1>9, <1>10 DEF ChatSafe, NotesSafe

\* What a sequence holds when something is appended.
LEMMA ContainsAppended ==
    ASSUME NEW S, NEW s \in Seq(S), NEW e \in S
    PROVE  \A x : Contains(Append(s, e), x) <=> Contains(s, x) \/ x = e
  <1>1. /\ Append(s, e) \in Seq(S) /\ Len(Append(s, e)) = Len(s) + 1
        /\ Append(s, e)[Len(s) + 1] = e
        /\ \A i \in 1..Len(s) : Append(s, e)[i] = s[i]
    BY Appended
  <1>2. Len(s) \in Nat
    OBVIOUS
  <1>3. \A i \in 1..Len(Append(s, e)) : i \in 1..Len(s) \/ i = Len(s) + 1
    BY <1>1, <1>2
  <1>4. Len(s) + 1 \in 1..Len(Append(s, e)) /\ 1..Len(s) \subseteq 1..Len(Append(s, e))
    BY <1>1, <1>2
  <1> QED BY <1>1, <1>3, <1>4 DEF Contains

\* The save of a message of a turn.
LEMMA HandleTurnSave ==
    ASSUME ChatSafe, HandleSave, ~IsNote(Head(mail).arg)
    PROVE  ChatSafe'
  <1> DEFINE m == Head(mail).arg
  <1>1. /\ mail # <<>> /\ Head(mail).op = "save" /\ mail' = Tail(mail)
        /\ inserting' = inserting \cup {m}
        /\ UNCHANGED <<queue, accepted, owed, subscribers, session, table, shown, turn,
                       memory, mishaps, unsaved>>
        /\ due' = [s \in Sessions |-> due[s]]
    BY DEF HandleSave
  <1>2. ChatTypeOK /\ TurnsSafe /\ NotesSafe /\ Apart /\ NothingMissed /\ NotesOnce
    BY DEF ChatSafe, TurnsSafe, NotesSafe
  <1>3. mail \in Seq(Request) /\ due' = due
    BY <1>1, <1>2 DEF ChatTypeOK
  <1>4. /\ mail' \in Seq(Request) /\ Head(mail) \in Request
        /\ \A x : Mailed(x) <=> Mailed(x)' \/ (Head(mail).op = "save" /\ x = Head(mail).arg)
        /\ \A s : (\E i \in 1..Len(mail') : mail'[i].op = "subscribe" /\ mail'[i].arg = s)
                  => Subscribing(s)
        /\ \A x : x = m => ~Mailed(x)'
        /\ \A i, j \in 1..Len(mail') :
              mail'[i].op = "save" /\ mail'[j].op = "save"
              /\ mail'[i].arg = mail'[j].arg => i = j
    BY <1>1, <1>2, <1>3, Handled
  <1>5. m \in Messages /\ ~IsNote(m)
    BY <1>1, <1>4, RequestParts
  <1>6. \A x : Mailed(x) <=> Mailed(x)' \/ x = m
    BY <1>1, <1>4
  <1>7. \A n \in Notes : <<n, 0>> # m
    BY <1>5, NoteMessage
  <1> HIDE DEF m
  <1>8. Apart'
    BY <1>1, <1>2, <1>4, <1>6 DEF Apart
  <1>9. ChatTypeOK'
    BY <1>1, <1>2, <1>3, <1>4, <1>5 DEF ChatTypeOK
  <1>10. TurnsSafe'
    BY <1>1, <1>6, <1>8, TurnsUntouched DEF InTransit
  <1>11. /\ NotesOnce' /\ QueueIsTheEnd'
         /\ \A s \in Sessions : ShownFromBefore(s)' /\ ShownInOrder(s)'
    BY <1>1, <1>2, <1>6, <1>7, NotesUntouched DEF NotesOnce
  <1>12. NothingMissed'
    <2>1. \A s \in Sessions : Subscribing(s)' => session'[s] # "none"
      BY <1>1, <1>2, <1>4 DEF NothingMissed, Subscribing
    <2> QED BY <1>1, <1>2, <1>3, <2>1 DEF NothingMissed, SentTo
  <1> QED BY <1>9, <1>10, <1>11, <1>12 DEF ChatSafe, NotesSafe

\* The save of a notification.
LEMMA HandleNoteSave ==
    ASSUME ChatSafe, HandleSave, IsNote(Head(mail).arg)
    PROVE  ChatSafe'
  <1> DEFINE m == Head(mail).arg
             n == m[1]
  <1>1. /\ mail # <<>> /\ Head(mail).op = "save" /\ mail' = Tail(mail)
        /\ inserting' = inserting \cup {m}
        /\ queue' = Append(queue, n) /\ accepted' = Append(accepted, n)
        /\ owed' = IF subscribers = {} THEN owed \cup {n} ELSE owed
        /\ due' = [s \in Sessions |-> IF s \in subscribers THEN due[s] \cup {n} ELSE due[s]]
        /\ UNCHANGED <<subscribers, session, table, shown, turn, memory, mishaps, unsaved>>
    BY DEF HandleSave
  <1>2. ChatTypeOK /\ TurnsSafe /\ NotesSafe /\ Apart /\ NothingMissed /\ NotesOnce
        /\ QueueIsTheEnd
    BY DEF ChatSafe, TurnsSafe, NotesSafe
  <1>3. mail \in Seq(Request) /\ queue \in Seq(Notes) /\ accepted \in Seq(Notes)
    BY <1>2 DEF ChatTypeOK
  <1>4. /\ mail' \in Seq(Request) /\ Head(mail) \in Request
        /\ \A x : Mailed(x) <=> Mailed(x)' \/ (Head(mail).op = "save" /\ x = Head(mail).arg)
        /\ \A s : (\E i \in 1..Len(mail') : mail'[i].op = "subscribe" /\ mail'[i].arg = s)
                  => Subscribing(s)
        /\ \A x : x = m => ~Mailed(x)'
        /\ \A i, j \in 1..Len(mail') :
              mail'[i].op = "save" /\ mail'[j].op = "save"
              /\ mail'[i].arg = mail'[j].arg => i = j
    BY <1>1, <1>2, <1>3, Handled
  <1>5. m \in Messages /\ n \in Notes /\ m = <<n, 0>>
    <2>1. m \in Messages /\ IsNote(m)
      BY <1>1, <1>4, RequestParts
    <2> QED BY <2>1, MessageParts
  <1>6. \A x : Mailed(x) <=> Mailed(x)' \/ x = m
    BY <1>1, <1>4
  <1>7. /\ \A t \in Turns, p \in Parts : <<t, p>> # m
        /\ \A k \in Notes : <<k, 0>> = m => k = n
    BY <1>5, ChatAssumption
  <1>8. Mailed(m) /\ ~Taken(n)
    BY <1>2, <1>5, <1>6 DEF NotesOnce
  <1> HIDE DEF m, n
  <1>9. Apart'
    BY <1>1, <1>2, <1>4, <1>6 DEF Apart
  <1>10. /\ queue' \in Seq(Notes) /\ Len(queue') = Len(queue) + 1
         /\ queue'[Len(queue) + 1] = n
         /\ \A i \in 1..Len(queue) : queue'[i] = queue[i]
    BY <1>1, <1>3, <1>5, Appended
  <1>11. /\ accepted' \in Seq(Notes) /\ Len(accepted') = Len(accepted) + 1
         /\ accepted'[Len(accepted) + 1] = n
         /\ \A i \in 1..Len(accepted) : accepted'[i] = accepted[i]
    BY <1>1, <1>3, <1>5, Appended
  <1>12. /\ Len(queue) \in Nat /\ Len(accepted) \in Nat /\ Len(queue) <= Len(accepted)
         /\ Sent' = Sent /\ Sent \in Nat /\ Sent + Len(queue) = Len(accepted)
         /\ 1..Sent \subseteq 1..Len(accepted)
    BY <1>2, <1>3, <1>10, <1>11 DEF Sent, QueueIsTheEnd
  <1>13. ChatTypeOK'
    <2>1. owed' \subseteq Notes /\ due' \in [Sessions -> SUBSET Notes]
      BY <1>1, <1>2, <1>5 DEF ChatTypeOK
    <2> QED BY <1>1, <1>2, <1>4, <1>5, <1>10, <1>11, <2>1 DEF ChatTypeOK
  <1>14. TurnsSafe'
    BY <1>1, <1>6, <1>7, <1>9, TurnsUntouched DEF InTransit
  <1>15. \A k : Taken(k)' <=> Taken(k) \/ k = n
    <2>1. \A i \in 1..Len(accepted') : i \in 1..Len(accepted) \/ i = Len(accepted) + 1
      BY <1>11, <1>12
    <2>2. /\ Len(accepted) + 1 \in 1..Len(accepted')
          /\ 1..Len(accepted) \subseteq 1..Len(accepted')
      BY <1>11, <1>12
    <2> QED BY <1>11, <2>1, <2>2 DEF Taken
  <1>16. NotesOnce'
    <2>1. ASSUME NEW i \in 1..Len(accepted'), NEW j \in 1..Len(accepted'),
                 accepted'[i] = accepted'[j]
          PROVE  i = j
      <3>1. /\ i \in 1..Len(accepted) \/ i = Len(accepted) + 1
            /\ j \in 1..Len(accepted) \/ j = Len(accepted) + 1
        BY <1>11, <1>12
      <3>2. CASE i \in 1..Len(accepted) /\ j \in 1..Len(accepted)
        BY <1>2, <1>11, <2>1, <3>2 DEF NotesOnce
      <3>3. CASE i = Len(accepted) + 1 /\ j \in 1..Len(accepted)
        BY <1>8, <1>11, <2>1, <3>3 DEF Taken
      <3>4. CASE i \in 1..Len(accepted) /\ j = Len(accepted) + 1
        BY <1>8, <1>11, <2>1, <3>4 DEF Taken
      <3> QED BY <3>1, <3>2, <3>3, <3>4
    <2>2. ASSUME NEW k \in Notes, Mailed(<<k, 0>>)'
          PROVE  ~Taken(k)'
      <3>1. <<k, 0>> # m
        BY <1>4, <2>2
      <3>2. k # n
        BY <1>5, <3>1
      <3>3. ~Taken(k)
        BY <1>2, <1>6, <2>2 DEF NotesOnce
      <3> QED BY <1>15, <3>2, <3>3
    <2>3. ASSUME NEW k \in Notes, <<k, 0>> \in inserting'
          PROVE  Taken(k)'
      <3>1. <<k, 0>> \in inserting \/ k = n
        BY <1>1, <1>7, <2>3
      <3> QED BY <1>2, <1>15, <3>1 DEF NotesOnce
    <2> QED BY <2>1, <2>2, <2>3 DEF NotesOnce
  <1>17. QueueIsTheEnd'
    <2>1. ASSUME NEW i \in 1..Len(queue')
          PROVE  queue'[i] = accepted'[Sent + i]
      <3>1. CASE i \in 1..Len(queue)
        <4>1. Sent + i \in 1..Len(accepted)
          BY <1>12, <3>1
        <4> QED BY <1>2, <1>10, <1>11, <3>1, <4>1 DEF QueueIsTheEnd
      <3>2. CASE i = Len(queue) + 1
        <4>1. Sent + i = Len(accepted) + 1
          BY <1>12, <3>2
        <4> QED BY <1>10, <1>11, <3>2, <4>1
      <3> QED BY <1>10, <1>12, <3>1, <3>2
    <2>2. Len(queue') <= Len(accepted')
      BY <1>10, <1>11, <1>12
    <2> QED BY <1>12, <2>1, <2>2 DEF QueueIsTheEnd
  <1>18. \A p \in 1..Sent : accepted'[p] = accepted[p]
    BY <1>11, <1>12
  <1>19. ASSUME NEW s \in Sessions
         PROVE  ShownFromBefore(s)' /\ ShownInOrder(s)'
    <2>1. ShownFromBefore(s) /\ ShownInOrder(s)
      BY <1>2 DEF NotesSafe
    <2>2. ShownFromBefore(s)'
      BY <1>1, <1>12, <1>18, <2>1 DEF ShownFromBefore
    <2>3. ShownInOrder(s)'
      BY <1>1, <1>12, <1>18, <2>1 DEF ShownInOrder
    <2> QED BY <2>2, <2>3
  <1>20. NothingMissed'
    <2>1. \A s \in Sessions : Subscribing(s)' => session'[s] # "none"
      BY <1>1, <1>2, <1>4 DEF NothingMissed, Subscribing
    <2>2. \A x : Contains(queue', x) <=> Contains(queue, x) \/ x = n
      BY <1>1, <1>3, <1>5, ContainsAppended
    <2>3. \A x \in owed' : Contains(queue', x)
      BY <1>1, <1>2, <2>2 DEF NothingMissed
    <2>4. subscribers' # {} => owed' = {}
      BY <1>1, <1>2 DEF NothingMissed
    <2>5. ASSUME NEW s \in subscribers', session'[s] = "open", NEW x \in due'[s]
          PROVE  Contains(queue', x) \/ SentTo(s, x)'
      <3>1. s \in Sessions /\ s \in subscribers
        BY <1>1, <1>2 DEF ChatTypeOK
      <3>2. x \in due[s] \/ x = n
        BY <1>1, <2>5, <3>1
      <3>3. CASE x \in due[s]
        <4>1. Contains(queue, x) \/ SentTo(s, x)
          BY <1>1, <1>2, <2>5, <3>1, <3>3 DEF NothingMissed
        <4> QED BY <1>1, <2>2, <4>1 DEF SentTo
      <3> QED BY <2>2, <3>2, <3>3
    <2> QED BY <2>1, <2>3, <2>4, <2>5 DEF NothingMissed
  <1> QED BY <1>13, <1>14, <1>16, <1>17, <1>19, <1>20 DEF ChatSafe, NotesSafe

LEMMA HandleSaveSafe ==
    ASSUME ChatSafe, HandleSave
    PROVE  ChatSafe'
  BY HandleTurnSave, HandleNoteSave

\* The frames of a broadcast.
Events == {Event(<<n, 0>>) : n \in Notes}
LEMMA BroadcastOf ==
    ASSUME queue \in Seq(Notes)
    PROVE  /\ Events \subseteq Frame
           /\ \A f \in Events : f.how = "event"
           /\ Broadcast \in Seq(Events) /\ Len(Broadcast) = Len(queue)
           /\ \A i \in 1..Len(queue) : /\ Broadcast[i] = Event(<<queue[i], 0>>)
                                       /\ Broadcast[i].msg[1] = queue[i]
  <1>1. \A n \in Notes : /\ Event(<<n, 0>>) \in Frame /\ Event(<<n, 0>>).how = "event"
                         /\ Event(<<n, 0>>).msg[1] = n
    BY NoteMessage
  <1>2. Events \subseteq Frame /\ \A f \in Events : f.how = "event"
    BY <1>1 DEF Events
  <1>3. DOMAIN queue = 1..Len(queue) /\ Len(queue) \in Nat
        /\ \A i \in 1..Len(queue) : queue[i] \in Notes
    OBVIOUS
  <1>4. \A i \in 1..Len(queue) : Broadcast[i] = Event(<<queue[i], 0>>)
    BY <1>3 DEF Broadcast
  <1>5. \A i \in 1..Len(queue) : Broadcast[i] \in Events
    BY <1>3, <1>4 DEF Events
  <1>6. Broadcast = [i \in 1..Len(queue) |-> Broadcast[i]]
    BY <1>3 DEF Broadcast
  <1> HIDE DEF Events
  <1>7. Broadcast \in [1..Len(queue) -> Events]
    BY <1>5, <1>6
  <1>8. Broadcast \in Seq(Events) /\ Len(Broadcast) = Len(queue)
    BY <1>3, <1>7
  <1> QED BY <1>1, <1>2, <1>3, <1>4, <1>8

LEMMA Beyond ==
    ASSUME NEW a \in Nat, NEW b \in Nat, NEW i \in 1..(a + b), i \notin 1..a
    PROVE  i - a \in 1..b /\ a + (i - a) = i
  OBVIOUS

LEMMA FlushSafe ==
    ASSUME ChatSafe, Flush
    PROVE  ChatSafe'
  <1>1. /\ subscribers # {} /\ Send(subscribers, Broadcast) /\ queue' = <<>>
        /\ UNCHANGED <<session, mail, subscribers, inserting, accepted, owed, due, table,
                       turn, memory, mishaps, unsaved>>
    BY DEF Flush
  <1>2. ChatTypeOK /\ TurnsSafe /\ NotesSafe /\ Apart /\ NothingMissed /\ NotesOnce
        /\ QueueIsTheEnd
    BY DEF ChatSafe, TurnsSafe, NotesSafe
  <1>3. queue \in Seq(Notes) /\ accepted \in Seq(Notes)
    BY <1>2 DEF ChatTypeOK
  <1>4. /\ Events \subseteq Frame /\ \A f \in Events : f.how = "event"
        /\ Broadcast \in Seq(Events) /\ Len(Broadcast) = Len(queue)
        /\ \A i \in 1..Len(queue) : /\ Broadcast[i] = Event(<<queue[i], 0>>)
                                    /\ Broadcast[i].msg[1] = queue[i]
    BY <1>3, BroadcastOf
  <1>5. /\ shown' \in [Sessions -> Seq(Frame)]
        /\ \A s \in Sessions :
              /\ Extended(s, Events)
              /\ s \in subscribers /\ session[s] = "open" =>
                    /\ Len(shown'[s]) = Len(shown[s]) + Len(queue)
                    /\ \A i \in 1..Len(queue) : shown'[s][Len(shown[s]) + i] = Broadcast[i]
              /\ ~(s \in subscribers /\ session[s] = "open") => shown'[s] = shown[s]
    <2>1. Events \in SUBSET Frame
      BY <1>4
    <2>2. /\ shown' \in [Sessions -> Seq(Frame)]
          /\ \A s \in Sessions :
                /\ Extended(s, Events)
                /\ s \in subscribers /\ session[s] = "open" =>
                      /\ Len(shown'[s]) = Len(shown[s]) + Len(Broadcast)
                      /\ \A i \in 1..Len(Broadcast) :
                            shown'[s][Len(shown[s]) + i] = Broadcast[i]
                /\ ~(s \in subscribers /\ session[s] = "open") => shown'[s] = shown[s]
      BY <1>1, <1>2, <1>4, <2>1, Sent1
    <2> QED BY <1>4, <2>2
  <1>6. Len(queue) \in Nat /\ Len(accepted) \in Nat /\ Sent' = Len(accepted)
        /\ Sent \in Nat /\ Sent + Len(queue) = Len(accepted)
    BY <1>1, <1>2, <1>3 DEF Sent, QueueIsTheEnd
  <1>7. ChatTypeOK'
    BY <1>1, <1>2, <1>5 DEF ChatTypeOK
  <1>8. TurnsSafe'
    <2>1. \A m : (Settled(m)' <=> Settled(m)) /\ (InTransit(m)' <=> InTransit(m))
      BY <1>1 DEF Settled, InTransit, Mailed
    <2>2. Apart' /\ TranscriptInOrder'
      BY <1>1, <1>2 DEF Apart, Mailed, TranscriptInOrder, TurnsSafe
    <2>3. ASSUME NEW s \in Sessions, NEW i \in 1..Len(shown'[s])
          PROVE  \/ shown'[s][i].how # "push"
                 \/ \E k \in 1..Len(shown[s]) : shown'[s][i] = shown[s][k]
      <3>1. Extended(s, Events) /\ Len(shown[s]) \in Nat
        BY <1>2, <1>5 DEF ChatTypeOK
      <3>2. i \in 1..Len(shown[s]) \/ i \in Len(shown[s]) + 1..Len(shown'[s])
        BY <3>1
      <3> QED BY <1>4, <3>1, <3>2 DEF Extended
    <2> QED BY <1>1, <1>2, <2>1, <2>2, <2>3, TurnsKept
  <1>9. NotesOnce'
    BY <1>1, <1>2 DEF NotesOnce, Mailed, Taken
  <1>10. QueueIsTheEnd'
    BY <1>1, <1>6 DEF QueueIsTheEnd
  <1>11. ASSUME NEW s \in Sessions
         PROVE  /\ ShownFromBefore(s)' /\ ShownInOrder(s)'
                /\ \A n : s \in subscribers /\ session[s] = "open"
                          /\ (Contains(queue, n) \/ SentTo(s, n)) => SentTo(s, n)'
    <2>1. /\ Extended(s, Events) /\ Len(shown[s]) \in Nat /\ Len(shown'[s]) \in Nat
          /\ ShownFromBefore(s) /\ ShownInOrder(s)
      BY <1>2, <1>5 DEF ChatTypeOK, NotesSafe, Extended
    <2>2. ASSUME NEW i \in 1..Len(shown'[s]), IsNote(shown'[s][i].msg)
          PROVE  \/ /\ i \in 1..Len(shown[s]) /\ shown'[s][i] = shown[s][i]
                    /\ IsNote(shown[s][i].msg)
                    /\ \E p \in 1..Sent : accepted[p] = shown'[s][i].msg[1]
                 \/ /\ i \notin 1..Len(shown[s])
                    /\ i - Len(shown[s]) \in 1..Len(queue)
                    /\ accepted[Sent + (i - Len(shown[s]))] = shown'[s][i].msg[1]
      <3>1. CASE i \in 1..Len(shown[s])
        <4>1. shown'[s][i] = shown[s][i]
          BY <2>1, <3>1 DEF Extended
        <4>2. IsNote(shown[s][i].msg)
          BY <2>2, <4>1 DEF IsNote
        <4>3. \E p \in 1..Sent : accepted[p] = shown[s][i].msg[1]
          BY <2>1, <3>1, <4>2 DEF ShownFromBefore
        <4> QED BY <3>1, <4>1, <4>2, <4>3
      <3>2. CASE i \notin 1..Len(shown[s])
        <4>1. shown'[s] # shown[s]
          BY <3>2
        <4>2. /\ Len(shown'[s]) = Len(shown[s]) + Len(queue)
              /\ \A k \in 1..Len(queue) : shown'[s][Len(shown[s]) + k] = Broadcast[k]
          BY <1>5, <4>1
        <4>3. /\ i - Len(shown[s]) \in 1..Len(queue)
              /\ Len(shown[s]) + (i - Len(shown[s])) = i
          <5>1. i \in 1..(Len(shown[s]) + Len(queue))
            BY <4>2
          <5> QED BY <1>6, <2>1, <3>2, <5>1, Beyond
        <4>4. shown'[s][i].msg[1] = queue[i - Len(shown[s])]
          <5>1. PICK k \in 1..Len(queue) : k = i - Len(shown[s]) /\ Len(shown[s]) + k = i
            BY <4>3
          <5>2. shown'[s][i] = Broadcast[k] /\ Broadcast[k].msg[1] = queue[k]
            BY <1>4, <4>2, <5>1
          <5> QED BY <5>1, <5>2
        <4>5. queue[i - Len(shown[s])] = accepted[Sent + (i - Len(shown[s]))]
          BY <1>2, <4>3 DEF QueueIsTheEnd
        <4> QED BY <3>2, <4>3, <4>4, <4>5
      <3> QED BY <3>1, <3>2
    <2>3. ShownFromBefore(s)'
      <3>1. ASSUME NEW i \in 1..Len(shown'[s]), IsNote(shown'[s][i].msg)
            PROVE  \E p \in 1..Len(accepted) : accepted[p] = shown'[s][i].msg[1]
        <4>1. 1..Sent \subseteq 1..Len(accepted)
          BY <1>6
        <4>2. CASE i \in 1..Len(shown[s])
          BY <2>2, <3>1, <4>1, <4>2
        <4>3. CASE i \notin 1..Len(shown[s])
          <5>1. /\ i - Len(shown[s]) \in 1..Len(queue)
                /\ accepted[Sent + (i - Len(shown[s]))] = shown'[s][i].msg[1]
            BY <2>2, <3>1, <4>3
          <5>2. Sent + (i - Len(shown[s])) \in 1..Len(accepted)
            BY <1>6, <5>1
          <5> QED BY <5>1, <5>2
        <4> QED BY <4>2, <4>3
      <3> QED BY <1>1, <1>6, <3>1 DEF ShownFromBefore, IsNote
    \* Where a shown notification stands among those accepted.
    <2>4. ASSUME NEW i \in 1..Len(shown'[s]), IsNote(shown'[s][i].msg),
                 NEW p \in 1..Len(accepted), accepted[p] = shown'[s][i].msg[1]
          PROVE  \/ /\ i \in 1..Len(shown[s]) /\ shown'[s][i] = shown[s][i]
                    /\ IsNote(shown[s][i].msg) /\ p \in 1..Sent
                 \/ i > Len(shown[s]) /\ p = Sent + (i - Len(shown[s]))
      <3>1. 1..Sent \subseteq 1..Len(accepted)
        BY <1>6
      <3>2. \A a, b \in 1..Len(accepted) : accepted[a] = accepted[b] => a = b
        BY <1>2 DEF NotesOnce
      <3>3. CASE i \in 1..Len(shown[s])
        BY <2>2, <2>4, <3>1, <3>2, <3>3
      <3>4. CASE i \notin 1..Len(shown[s])
        <4>1. /\ i - Len(shown[s]) \in 1..Len(queue)
              /\ accepted[Sent + (i - Len(shown[s]))] = shown'[s][i].msg[1]
          BY <2>2, <2>4, <3>4
        <4>2. Sent + (i - Len(shown[s])) \in 1..Len(accepted) /\ i > Len(shown[s])
          BY <1>6, <2>1, <3>4, <4>1
        <4> QED BY <2>4, <3>2, <4>1, <4>2
      <3> QED BY <3>3, <3>4
    <2>5. ShownInOrder(s)'
      <3>1. ASSUME NEW i \in 1..Len(shown'[s]), NEW j \in 1..Len(shown'[s]), i < j,
                   IsNote(shown'[s][i].msg), IsNote(shown'[s][j].msg),
                   NEW p \in 1..Len(accepted), NEW q \in 1..Len(accepted),
                   accepted[p] = shown'[s][i].msg[1], accepted[q] = shown'[s][j].msg[1]
            PROVE  p < q
        <4>1. \/ /\ i \in 1..Len(shown[s]) /\ shown'[s][i] = shown[s][i]
                 /\ IsNote(shown[s][i].msg) /\ p \in 1..Sent
              \/ i > Len(shown[s]) /\ p = Sent + (i - Len(shown[s]))
          BY <2>4, <3>1
        <4>2. \/ /\ j \in 1..Len(shown[s]) /\ shown'[s][j] = shown[s][j]
                 /\ IsNote(shown[s][j].msg) /\ q \in 1..Sent
              \/ j > Len(shown[s]) /\ q = Sent + (j - Len(shown[s]))
          BY <2>4, <3>1
        <4>3. CASE j \in 1..Len(shown[s])
          <5>1. i \in 1..Len(shown[s]) /\ ~(i > Len(shown[s])) /\ ~(j > Len(shown[s]))
            BY <2>1, <3>1, <4>3
          <5> QED BY <2>1, <3>1, <4>1, <4>2, <5>1 DEF ShownInOrder
        <4>4. CASE j \notin 1..Len(shown[s])
          BY <1>6, <2>1, <3>1, <4>1, <4>2, <4>4
        <4> QED BY <4>3, <4>4
      <3>2. \A i, j \in 1..Len(shown'[s]) :
               i < j /\ IsNote(shown'[s][i].msg) /\ IsNote(shown'[s][j].msg) =>
               \A p, q \in 1..Len(accepted) :
                  accepted[p] = shown'[s][i].msg[1] /\ accepted[q] = shown'[s][j].msg[1]
                  => p < q
        BY <3>1
      <3> QED BY <1>1, <1>6, <3>2 DEF ShownInOrder, IsNote
    <2>6. ASSUME NEW n, s \in subscribers, session[s] = "open",
                 Contains(queue, n) \/ SentTo(s, n)
          PROVE  SentTo(s, n)'
      <3>1. /\ Len(shown'[s]) = Len(shown[s]) + Len(queue)
            /\ \A k \in 1..Len(queue) : shown'[s][Len(shown[s]) + k] = Broadcast[k]
        BY <1>5, <2>6
      <3>2. CASE Contains(queue, n)
        <4>1. PICK k \in 1..Len(queue) : queue[k] = n
          BY <3>2 DEF Contains
        <4>2. Len(shown[s]) + k \in 1..Len(shown'[s])
          BY <1>6, <2>1, <3>1, <4>1
        <4>3. shown'[s][Len(shown[s]) + k] = Event(<<n, 0>>)
          BY <1>4, <3>1, <4>1
        <4> QED BY <4>2, <4>3 DEF SentTo, Contains, Event
      <3>3. CASE SentTo(s, n)
        <4>1. PICK k \in 1..Len(shown[s]) : shown[s][k] = Event(<<n, 0>>)
          BY <3>3 DEF SentTo, Contains
        <4>2. k \in 1..Len(shown'[s]) /\ shown'[s][k] = Event(<<n, 0>>)
          BY <2>1, <4>1 DEF Extended
        <4> QED BY <4>2 DEF SentTo, Contains, Event
      <3> QED BY <2>6, <3>2, <3>3
    <2> QED BY <2>3, <2>5, <2>6
  <1>12. NothingMissed'
    <2>1. owed' = {}
      BY <1>1, <1>2 DEF NothingMissed
    <2>2. \A s \in Sessions : Subscribing(s)' => session'[s] # "none"
      BY <1>1, <1>2 DEF NothingMissed, Subscribing
    <2>3. \A s \in subscribers' : session'[s] = "open" =>
             \A n \in due'[s] : Contains(queue', n) \/ SentTo(s, n)'
      BY <1>1, <1>2, <1>11 DEF NothingMissed, ChatTypeOK
    <2> QED BY <2>1, <2>2, <2>3 DEF NothingMissed
  <1> QED BY <1>7, <1>8, <1>9, <1>10, <1>11, <1>12 DEF ChatSafe, NotesSafe

-----------------------------------------------------------------------------
\* The INSERTs and the restart.

LEMMA InsertDoneSafe ==
    ASSUME ChatSafe, NEW m \in Messages, InsertDone(m)
    PROVE  ChatSafe'
  <1>1. /\ m \in inserting /\ inserting' = inserting \ {m}
        /\ table' = [table EXCEPT ![m[1]] = Append(@, m[2])]
        /\ UNCHANGED <<session, mail, queue, subscribers, accepted, owed, due, shown,
                       turn, memory, mishaps, unsaved>>
    BY DEF InsertDone
  <1>2. ChatTypeOK /\ TurnsSafe /\ NotesSafe /\ Apart /\ NothingMissed /\ NotesOnce
    BY DEF ChatSafe, TurnsSafe, NotesSafe
  <1>3. /\ m = <<m[1], m[2]>> /\ m[2] \in Parts /\ m[1] \in Turns \cup Notes
    BY MessageParts
  <1>4. table[m[1]] \in Seq(Parts) /\ table \in [Turns \cup Notes -> Seq(Parts)]
    BY <1>2, <1>3 DEF ChatTypeOK
  <1>5. /\ table'[m[1]] = Append(table[m[1]], m[2])
        /\ \A k \in Turns \cup Notes : k # m[1] => table'[k] = table[k]
        /\ \A x : Contains(table'[m[1]], x) <=> Contains(table[m[1]], x) \/ x = m[2]
    <2>1. table'[m[1]] = Append(table[m[1]], m[2])
          /\ \A k \in Turns \cup Notes : k # m[1] => table'[k] = table[k]
      BY <1>1, <1>3, <1>4
    <2> QED BY <1>3, <1>4, <2>1, ContainsAppended
  <1>6. /\ table'[m[1]] \in Seq(Parts) /\ Len(table'[m[1]]) = Len(table[m[1]]) + 1
        /\ table'[m[1]][Len(table[m[1]]) + 1] = m[2]
        /\ \A i \in 1..Len(table[m[1]]) : table'[m[1]][i] = table[m[1]][i]
    BY <1>3, <1>4, <1>5, Appended
  <1>7. ChatTypeOK'
    <2>1. table' \in [Turns \cup Notes -> Seq(Parts)]
      BY <1>1, <1>4, <1>5, <1>6
    <2> QED BY <1>1, <1>2, <2>1 DEF ChatTypeOK
  <1>8. \A x : Mailed(x)' <=> Mailed(x)
    BY <1>1 DEF Mailed
  <1>9. Apart'
    BY <1>1, <1>2, <1>8 DEF Apart
  <1>10. ASSUME NEW t \in Turns, NEW p \in Parts
         PROVE  Settled(<<t, p>>)' <=> Settled(<<t, p>>) \/ <<t, p>> = m
    BY <1>1, <1>3, <1>5 DEF Settled
  <1>11. \A x : Settled(x) => Settled(x)'
    <2> SUFFICES ASSUME NEW x, Settled(x) PROVE Settled(x)'
      OBVIOUS
    <2>1. CASE x \in unsaved
      BY <1>1, <2>1 DEF Settled
    <2>2. CASE Contains(table[x[1]], x[2])
      <3>1. Contains(table'[x[1]], x[2])
        BY <1>1, <1>4, <1>5, <2>2
      <3> QED BY <3>1 DEF Settled
    <2> QED BY <2>1, <2>2 DEF Settled
  <1>12. TranscriptInOrder'
    <2> SUFFICES ASSUME NEW t \in Turns,
                        NEW i \in DOMAIN table'[t], NEW j \in DOMAIN table'[t], i < j
                 PROVE  table'[t][i] < table'[t][j]
      BY DEF TranscriptInOrder
    <2>1. CASE t # m[1]
      BY <1>2, <1>5, <2>1 DEF TranscriptInOrder, TurnsSafe
    <2>2. CASE t = m[1]
      <3>1. /\ DOMAIN table[t] = 1..Len(table[t]) /\ Len(table[t]) \in Nat
            /\ DOMAIN table'[t] = 1..Len(table[t]) + 1
            /\ \A k \in 1..Len(table[t]) : table[t][k] \in Parts
        BY <1>4, <1>6, <2>2
      <3>2. i \in 1..Len(table[t]) /\ (j \in 1..Len(table[t]) \/ j = Len(table[t]) + 1)
        BY <3>1
      <3>3. CASE j \in 1..Len(table[t])
        BY <1>2, <1>6, <2>2, <3>1, <3>2, <3>3 DEF TranscriptInOrder, TurnsSafe
      <3>4. CASE j = Len(table[t]) + 1
        <4> DEFINE e == table[t][i]
        <4>1. e \in Parts /\ Contains(table[t], e)
          BY <3>1, <3>2 DEF Contains
        <4> HIDE DEF e
        <4>2. Settled(<<t, e>>)
          BY <4>1 DEF Settled
        <4>3. e <= turn[t].part
          BY <1>2, <4>1, <4>2 DEF TurnsSafe, SettledSoFar
        <4>4. InTransit(<<t, m[2]>>)
          BY <1>1, <1>3, <2>2 DEF InTransit
        <4>5. m[2] = turn[t].part /\ ~Settled(<<t, m[2]>>)
          BY <1>2, <1>3, <4>4 DEF TurnsSafe, TransitSound
        <4>6. e # m[2]
          BY <4>2, <4>5
        <4>7. e < m[2]
          BY <1>3, <4>1, <4>3, <4>5, <4>6 DEF Parts
        <4> QED BY <1>6, <2>2, <3>2, <3>4, <4>7 DEF e
      <3> QED BY <3>2, <3>3, <3>4
    <2> QED BY <2>1, <2>2
  <1>13. TurnsSafe'
    <2>1. \A t \in Turns, p \in Parts : InTransit(<<t, p>>)' => InTransit(<<t, p>>)
      BY <1>1, <1>8 DEF InTransit
    <2>2. InTransit(m) /\ ~InTransit(m)'
      BY <1>1, <1>2, <1>8 DEF InTransit, Apart
    <2>3. ASSUME NEW t \in Turns, NEW p \in Parts, Settled(<<t, p>>)'
          PROVE  Settled(<<t, p>>) \/ (InTransit(<<t, p>>) /\ ~InTransit(<<t, p>>)')
      BY <1>10, <2>2, <2>3
    <2> QED BY <1>1, <1>2, <1>9, <1>11, <1>12, <2>1, <2>3, TurnsKept
  <1>14. /\ NotesOnce' /\ QueueIsTheEnd'
         /\ \A s \in Sessions : ShownFromBefore(s)' /\ ShownInOrder(s)'
    BY <1>1, <1>2, <1>8, NotesUntouched DEF NotesOnce
  <1>15. NothingMissed'
    BY <1>1, <1>2 DEF NothingMissed, Subscribing, SentTo
  <1> QED BY <1>7, <1>13, <1>14, <1>15 DEF ChatSafe, NotesSafe

LEMMA InsertFailsSafe ==
    ASSUME ChatSafe, NEW m \in Messages, InsertFails(m)
    PROVE  ChatSafe'
  <1>1. /\ m \in inserting /\ Mishap /\ inserting' = inserting \ {m}
        /\ unsaved' = unsaved \cup {m}
        /\ UNCHANGED <<session, mail, queue, subscribers, accepted, owed, due, table,
                       shown, turn, memory>>
    BY DEF InsertFails
  <1>2. ChatTypeOK /\ TurnsSafe /\ NotesSafe /\ Apart /\ NothingMissed /\ NotesOnce
    BY DEF ChatSafe, TurnsSafe, NotesSafe
  <1>3. ChatTypeOK'
    BY <1>1, <1>2, ChatAssumption DEF ChatTypeOK, Mishap
  <1>4. \A x : Mailed(x)' <=> Mailed(x)
    BY <1>1 DEF Mailed
  <1>5. Apart'
    BY <1>1, <1>2, <1>4 DEF Apart
  <1>6. \A x : Settled(x)' <=> Settled(x) \/ x = m
    BY <1>1 DEF Settled
  <1>7. TranscriptInOrder'
    BY <1>1, <1>2 DEF TranscriptInOrder, TurnsSafe
  <1>8. TurnsSafe'
    <2>1. \A t \in Turns, p \in Parts : InTransit(<<t, p>>)' => InTransit(<<t, p>>)
      BY <1>1, <1>4 DEF InTransit
    <2>2. InTransit(m) /\ ~InTransit(m)'
      BY <1>1, <1>2, <1>4 DEF InTransit, Apart
    <2>3. ASSUME NEW t \in Turns, NEW p \in Parts, Settled(<<t, p>>)'
          PROVE  Settled(<<t, p>>) \/ (InTransit(<<t, p>>) /\ ~InTransit(<<t, p>>)')
      BY <1>6, <2>2, <2>3
    <2> QED BY <1>1, <1>2, <1>5, <1>6, <1>7, <2>1, <2>3, TurnsKept
  <1>9. /\ NotesOnce' /\ QueueIsTheEnd'
        /\ \A s \in Sessions : ShownFromBefore(s)' /\ ShownInOrder(s)'
    BY <1>1, <1>2, <1>4, NotesUntouched DEF NotesOnce
  <1>10. NothingMissed'
    BY <1>1, <1>2 DEF NothingMissed, Subscribing, SentTo
  <1> QED BY <1>3, <1>8, <1>9, <1>10 DEF ChatSafe, NotesSafe

LEMMA RestartSafe ==
    ASSUME ChatSafe, Restart
    PROVE  ChatSafe'
  <1>1. /\ Mishap
        /\ session' = [s \in Sessions |-> IF session[s] = "none" THEN "none" ELSE "closed"]
        /\ mail' = <<>> /\ queue' = <<>> /\ subscribers' = {} /\ inserting' = {}
        /\ shown' = [s \in Sessions |-> <<>>] /\ memory' = "up"
        /\ owed' = {} /\ due' = [s \in Sessions |-> {}]
        /\ UNCHANGED <<table, unsaved, accepted>>
    BY DEF Restart
  <1>2. ChatTypeOK /\ TurnsSafe /\ NotesSafe /\ NotesOnce
    BY DEF ChatSafe, TurnsSafe, NotesSafe
  <1>3. ASSUME NEW t \in Turns
        PROVE  /\ turn'[t] \in Turn /\ turn'[t].part = turn[t].part
               /\ turn'[t].pc \in {"idle", "empty", "done", "gone"}
               /\ turn'[t].pc = "idle" => turn[t].pc = "idle"
    <2>1. turn[t] \in Turn
      BY <1>2 DEF ChatTypeOK
    <2>2. turn'[t] = IF turn[t].pc \in {"idle", "empty", "done"} THEN turn[t]
                     ELSE [turn[t] EXCEPT !.pc = "gone"]
      BY DEF Restart
    <2> QED BY <2>1, <2>2 DEF Turn
  <1>4. turn' \in [Turns -> Turn]
    <2>1. turn' = [t \in Turns |-> turn'[t]]
      BY DEF Restart
    <2> QED BY <1>3, <2>1
  <1>5. ChatTypeOK'
    <2>1. mishaps' \in 0..MaxMishaps
      BY <1>1, <1>2, ChatAssumption DEF ChatTypeOK, Mishap
    <2>2. session' \in [Sessions -> {"none", "open", "closed"}]
      BY <1>1
    <2> QED BY <1>1, <1>2, <1>4, <2>1, <2>2 DEF ChatTypeOK
  <1>6. \A x : ~InTransit(x)' /\ ~Mailed(x)'
    BY <1>1 DEF InTransit, Mailed
  <1>7. TurnsSafe'
    <2>1. \A t \in Turns : TurnSound(t)'
      <3> SUFFICES ASSUME NEW t \in Turns PROVE TurnSound(t)'
        OBVIOUS
      <3>1. turn[t].pc = "idle" => turn[t].part = 0
        BY <1>2 DEF TurnsSafe, TurnSound
      <3> QED BY <1>3, <3>1 DEF TurnSound
    <2>2. Apart' /\ TransitSound'
      BY <1>1, <1>6 DEF Apart, TransitSound
    <2>3. SettledSoFar'
      <3>1. \A x : Settled(x)' <=> Settled(x)
        BY <1>1 DEF Settled
      <3> SUFFICES ASSUME NEW t \in Turns, NEW p \in Parts, Settled(<<t, p>>)'
                   PROVE  p <= turn'[t].part
                          /\ (turn'[t].pc \in {"idle", "name", "reply"} => p < turn'[t].part)
        BY DEF SettledSoFar
      <3> QED BY <1>2, <1>3, <3>1 DEF SettledSoFar, TurnsSafe
    <2>4. PushesSound'
      BY <1>1 DEF PushesSound
    <2>5. TranscriptInOrder'
      BY <1>1, <1>2 DEF TranscriptInOrder, TurnsSafe
    <2> QED BY <2>1, <2>2, <2>3, <2>4, <2>5 DEF TurnsSafe
  <1>8. NotesOnce'
    BY <1>1, <1>2, <1>6 DEF NotesOnce, Taken
  <1>9. QueueIsTheEnd'
    <2>1. accepted \in Seq(Notes)
      BY <1>2 DEF ChatTypeOK
    <2> QED BY <1>1, <2>1 DEF QueueIsTheEnd
  <1>10. \A s \in Sessions : ShownFromBefore(s)' /\ ShownInOrder(s)'
    BY <1>1 DEF ShownFromBefore, ShownInOrder
  <1>11. NothingMissed'
    BY <1>1 DEF NothingMissed, Subscribing
  <1> QED BY <1>5, <1>7, <1>8, <1>9, <1>10, <1>11 DEF ChatSafe, NotesSafe

-----------------------------------------------------------------------------
\* The whole.

LEMMA InitSafe ==
    ASSUME ChatInit
    PROVE  ChatSafe
  <1>1. /\ session = [s \in Sessions |-> "none"]
        /\ mail = <<>> /\ queue = <<>> /\ subscribers = {} /\ inserting = {}
        /\ table = [k \in Turns \cup Notes |-> <<>>]
        /\ memory = "up" /\ mishaps = 0
        /\ shown = [s \in Sessions |-> <<>>]
        /\ turn = [t \in Turns |-> IdleTurn]
        /\ unsaved = {} /\ accepted = <<>> /\ owed = {}
        /\ due = [s \in Sessions |-> {}]
    BY DEF ChatInit
  <1>2. IdleTurn \in Turn /\ IdleTurn.pc = "idle" /\ IdleTurn.part = 0
    <2>1. 0 \in Parts
      BY ChatAssumption DEF Parts
    <2> QED BY <2>1 DEF IdleTurn, Turn
  <1>3. ChatTypeOK
    <2>1. 0 \in 0..MaxMishaps
      BY ChatAssumption
    <2>2. turn \in [Turns -> Turn]
      BY <1>1, <1>2
    <2>3. table \in [Turns \cup Notes -> Seq(Parts)] /\ shown \in [Sessions -> Seq(Frame)]
      BY <1>1
    <2> QED BY <1>1, <2>1, <2>2, <2>3 DEF ChatTypeOK
  <1>4. TurnsSafe
    <2>1. \A t \in Turns : turn[t].pc = "idle" /\ turn[t].part = 0
      BY <1>1, <1>2
    <2>2. \A x : ~InTransit(x)
      BY <1>1 DEF InTransit, Mailed
    <2>3. \A t \in Turns, p \in Parts : ~Settled(<<t, p>>)
      BY <1>1 DEF Settled, Contains
    <2>4. Apart /\ PushesSound /\ TranscriptInOrder
      BY <1>1 DEF Apart, PushesSound, TranscriptInOrder
    <2> QED BY <2>1, <2>2, <2>3, <2>4 DEF TurnsSafe, TurnSound, TransitSound, SettledSoFar
  <1>5. NotesSafe
    <2>1. NotesOnce /\ QueueIsTheEnd
      BY <1>1 DEF NotesOnce, Mailed, QueueIsTheEnd
    <2>2. \A s \in Sessions : ShownFromBefore(s) /\ ShownInOrder(s)
      BY <1>1 DEF ShownFromBefore, ShownInOrder
    <2>3. NothingMissed
      BY <1>1 DEF NothingMissed, Subscribing
    <2> QED BY <2>1, <2>2, <2>3 DEF NotesSafe
  <1> QED BY <1>3, <1>4, <1>5 DEF ChatSafe

LEMMA TurnStepSafe ==
    ASSUME ChatSafe, NEW t \in Turns, TurnStep(t)
    PROVE  ChatSafe'
  <1>1. CASE PromptPanics(t)
    BY <1>1, RefuseSafe DEF PromptPanics
  <1>2. CASE AnswerFails(t)
    BY <1>2, RefuseSafe DEF AnswerFails
  <1> QED BY <1>1, <1>2, SaveQuestionSafe, AskAgentSafe, PromptNameSafe, RecallSafe, AnswerSafe,
             SaveReplySafe, PushReplySafe DEF TurnStep

LEMMA StepSafe ==
    ASSUME ChatSafe, [ChatNext]_chatVars
    PROVE  ChatSafe'
  <1>1. CASE UNCHANGED chatVars
    <2>1. UNCHANGED <<session, mail, queue, subscribers, inserting, accepted, owed, due,
                      table, shown, turn, memory, mishaps, unsaved>>
      BY <1>1 DEF chatVars, channelVars
    <2>2. \A m : (Mailed(m)' <=> Mailed(m)) /\ (InTransit(m)' <=> InTransit(m))
      BY <2>1 DEF Mailed, InTransit
    <2>3. Apart' /\ ChatTypeOK'
      BY <2>1, <2>2 DEF Apart, ChatSafe, ChatTypeOK, TurnsSafe
    <2>4. TurnsSafe'
      BY <2>1, <2>2, <2>3, TurnsUntouched
    <2>5. /\ NotesOnce' /\ QueueIsTheEnd'
          /\ \A s \in Sessions : ShownFromBefore(s)' /\ ShownInOrder(s)'
      BY <2>1, <2>2, NotesUntouched DEF ChatSafe, NotesSafe, NotesOnce
    <2>6. NothingMissed'
      BY <2>1 DEF ChatSafe, NotesSafe, NothingMissed, Subscribing, SentTo
    <2> QED BY <2>3, <2>4, <2>5, <2>6 DEF ChatSafe, NotesSafe
  <1>2. CASE ChannelStep
    BY <1>2, HandleSubscribeSafe, HandleUnsubscribeSafe, HandleSaveSafe, FlushSafe,
       InsertDoneSafe DEF ChannelStep
  <1>3. CASE \E t \in Turns : TurnStep(t) \/ RecallFails(t)
    BY <1>3, TurnStepSafe, RecallSafe
  <1> QED BY <1>1, <1>2, <1>3, ConnectSafe, DisconnectSafe, NotifySafe, InsertFailsSafe, AskSafe,
             RestartSafe DEF ChatNext

LEMMA SafeShows ==
    ASSUME ChatSafe
    PROVE  SubscribersMissNothing /\ PushedIsSaved /\ TranscriptInOrder
  <1>1. ChatTypeOK /\ TurnsSafe /\ NotesSafe /\ NothingMissed /\ NotesOnce /\ PushesSound
    BY DEF ChatSafe, TurnsSafe, NotesSafe
  <1>2. ASSUME NEW s \in Sessions
        PROVE  NotesInOrder(s)
    <2>1. DOMAIN shown[s] = 1..Len(shown[s]) /\ DOMAIN accepted = 1..Len(accepted)
      BY <1>1 DEF ChatTypeOK
    <2>2. ShownFromBefore(s) /\ ShownInOrder(s)
      BY <1>1 DEF NotesSafe
    <2>3. 1..Sent \subseteq 1..Len(accepted)
      BY <1>1 DEF Sent, ChatTypeOK
    <2>4. ASSUME NEW i \in 1..Len(shown[s]), IsNote(shown[s][i].msg)
          PROVE  Place(s, i) \in 1..Sent /\ accepted[Place(s, i)] = shown[s][i].msg[1]
      <3>1. PICK p \in 1..Sent : accepted[p] = shown[s][i].msg[1]
        BY <2>2, <2>4 DEF ShownFromBefore
      <3>2. /\ Place(s, i) \in 1..Len(accepted)
            /\ accepted[Place(s, i)] = shown[s][i].msg[1]
        BY <2>1, <2>3, <3>1 DEF Place
      <3>3. Place(s, i) = p
        BY <1>1, <2>3, <3>1, <3>2 DEF NotesOnce
      <3> QED BY <3>2, <3>3
    <2> QED BY <2>1, <2>2, <2>4 DEF NotesInOrder, ShownInOrder
  <1>3. SubscribersMissNothing
    BY <1>1, <1>2 DEF SubscribersMissNothing, NothingMissed
  <1>4. PushedIsSaved
    <2>1. \A s \in Sessions : DOMAIN shown[s] = 1..Len(shown[s])
      BY <1>1 DEF ChatTypeOK
    <2> QED BY <1>1, <2>1 DEF PushedIsSaved, PushesSound
  <1> QED BY <1>1, <1>3, <1>4 DEF TurnsSafe

LEMMA AlwaysSafe == ChatSpec => []ChatSafe
  <1>1. ChatInit => ChatSafe
    BY InitSafe
  <1>2. ChatSafe /\ [ChatNext]_chatVars => ChatSafe'
    BY StepSafe
  <1> QED BY <1>1, <1>2, PTL DEF ChatSpec

\* Sessions, mailbox, queue, table, frames and turns keep their types through any
\* number of questions, notifications, failures and restarts.
THEOREM ChatTypes == ChatSpec => []ChatTypeOK
  <1>1. ChatSafe => ChatTypeOK
    BY DEF ChatSafe
  <1> QED BY <1>1, AlwaysSafe, PTL

\* The queue is emptied only when somebody listens, and never overtaken: what came
\* while a session was subscribed, or while nobody was, is queued for it or sent to
\* it, and what it shows stands in the order in which it was taken, once.
THEOREM NothingIsMissed == ChatSpec => []SubscribersMissNothing
  <1>1. ChatSafe => SubscribersMissNothing
    BY SafeShows
  <1> QED BY <1>1, AlwaysSafe, PTL

\* A turn waits for its message before it pushes it, and asks the model only under
\* a name: what a client sees is in the table or was refused, whatever other turns,
\* crashes of the memory and failing INSERTs do meanwhile.
THEOREM PushedStaysSaved == ChatSpec => []PushedIsSaved
  <1>1. ChatSafe => PushedIsSaved
    BY SafeShows
  <1> QED BY <1>1, AlwaysSafe, PTL

\* The INSERTs run as futures without an order; yet a turn has one of them at a
\* time, so its question and the parts of its answer are stored in their order.
THEOREM TranscriptsInOrder == ChatSpec => []TranscriptInOrder
  <1>1. ChatSafe => TranscriptInOrder
    BY SafeShows
  <1> QED BY <1>1, AlwaysSafe, PTL
=============================================================================
