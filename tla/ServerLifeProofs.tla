--------------------------- MODULE ServerLifeProofs ---------------------------
(***************************************************************************)
(* For any users, clients, requests, saves, texts and bounds: a refresh     *)
(* token is exchanged once, a client can refresh with the token of its     *)
(* latest answer, the file of settings stays whole and what was saved is   *)
(* served.                                                                 *)
(***************************************************************************)
EXTENDS ServerLife, FiniteSetTheorems, TLAPS

-----------------------------------------------------------------------------
\* The tokens.

Working == [pc : {"looking", "found", "minting", "storing"}, client : Clients,
            old : Token \cup {NoToken}, new : Token \cup {NoToken}]

\* A token about which the promise to its holders counts.
Live(t) ==
    /\ t # NoToken /\ t \notin spoiled
    /\ t.run = run /\ clock < t.iat + Life

\* A request took t out of Redis and has not answered yet.
InHand(t) == \E r \in Requests : (At(r, "minting") \/ At(r, "storing")) /\ request[r].old = t

SessionsTyped ==
    /\ clock \in Nat /\ run \in Nat /\ serving \in BOOLEAN
    /\ redis \subseteq Token
    /\ held \in [Clients -> Token \cup {NoToken}]
    /\ request \in [Requests -> Working \cup {Free}]
    /\ \A r \in Requests : At(r, "storing") => request[r].new \in Token
    /\ \A r \in Requests :
          request[r] # Free /\ request[r].pc # "storing" => request[r].old \in Token

\* While the server serves, a live token has one holder; only this client has a
\* request about it; and it is in Redis or was taken out by such a request.
OneHolder ==
    \A c, d \in Clients : held[c] = held[d] /\ Live(held[c]) => c = d
OwnRequest ==
    \A r \in Requests, d \in Clients :
        request[r] # Free /\ request[r].old = held[d] /\ Live(held[d]) => request[r].client = d
LiveIsKept ==
    \A c \in Clients : Live(held[c]) => held[c] \in redis \/ InHand(held[c])

\* Until the server serves nobody holds a token of this run.
NotIssuedYet ==
    /\ \A c \in Clients : held[c] # NoToken => held[c].run <= run
    /\ boot \in {"writing", "reading"} =>
          \A c \in Clients : held[c] # NoToken => held[c].run # run
    /\ \A r \in Requests : At(r, "storing") => request[r].new.run = run

\* A token that was exchanged is gone until it is issued again.
SpentIsGone == spent \cap redis = {}

TokensSafe ==
    /\ SessionsTyped /\ SpentIsGone /\ NotIssuedYet
    /\ serving <=> boot = "up"
    /\ ~serving => \A r \in Requests : request[r] = Free
    /\ serving => OneHolder /\ OwnRequest /\ LiveIsKept

-----------------------------------------------------------------------------
\* What the sets of requests and tokens make of a step.

LEMMA MintedIsToken ==
    ASSUME SessionsTyped, NEW u \in Users
    PROVE  /\ Minted(u) \in Token /\ Minted(u).run = run
           /\ Minted(u) # NoToken
  BY SessionsAssumption DEF Minted, Token, SessionsTyped

LEMMA WorkIsNotFree == Free \notin Working
  BY SessionsAssumption DEF Working

\* A request at work is one of the records.
LEMMA AtWork ==
    ASSUME SessionsTyped, NEW r \in Requests, request[r] # Free
    PROVE  request[r] \in Working
  BY DEF SessionsTyped

\* A request that is replaced keeps the types of the others.
LEMMA BecomesTyped ==
    ASSUME SessionsTyped, NEW r \in Requests, NEW q \in Working \cup {Free}, Becomes(r, q),
           q # Free /\ q.pc = "storing" => q.new \in Token,
           q # Free /\ q.pc # "storing" => q.old \in Token
    PROVE  /\ request' \in [Requests -> Working \cup {Free}]
           /\ request'[r] = q /\ \A s \in Requests \ {r} : request'[s] = request[s]
           /\ \A s \in Requests : At(s, "storing")' => request'[s].new \in Token
           /\ \A s \in Requests :
                 request'[s] # Free /\ request'[s].pc # "storing" => request'[s].old \in Token
  <1>1. /\ request' \in [Requests -> Working \cup {Free}]
        /\ request'[r] = q /\ \A s \in Requests \ {r} : request'[s] = request[s]
    BY DEF Becomes, SessionsTyped
  <1>2. \A s \in Requests : At(s, "storing")' => request'[s].new \in Token
    BY <1>1 DEF At, SessionsTyped
  <1>3. \A s \in Requests :
           request'[s] # Free /\ request'[s].pc # "storing" => request'[s].old \in Token
    BY <1>1 DEF SessionsTyped
  <1> QED BY <1>1, <1>2, <1>3

-----------------------------------------------------------------------------
\* The steps of a request that issue nothing.

\* Where no answer is given, nothing live is removed, and the requests change
\* in one place, the promises to the holders are kept when the changed request
\* keeps them.
LEMMA PromisesKept ==
    ASSUME TokensSafe, serving, NEW r \in Requests,
           UNCHANGED <<clock, run, serving, held, boot>>,
           spoiled \subseteq spoiled',
           \A s \in Requests \ {r} : request'[s] = request[s],
           \* the request is about the token it was about, or about that of its client
           request'[r] # Free =>
              \/ request[r] # Free /\ request'[r].old = request[r].old
                                   /\ request'[r].client = request[r].client
              \/ request'[r].client \in Clients
                 /\ request'[r].old \in {held[request'[r].client], NoToken},
           \* what it has in hand it keeps
           (At(r, "minting") \/ At(r, "storing")) =>
              /\ request'[r] # Free /\ request'[r].pc \in {"minting", "storing"}
              /\ request'[r].old = request[r].old,
           \* what leaves Redis is in its hand, or spoiled
           \A t \in redis \ redis' :
              \/ t \in spoiled'
              \/ request'[r] # Free /\ request'[r].pc \in {"minting", "storing"}
                                    /\ request'[r].old = t
    PROVE  OneHolder' /\ OwnRequest' /\ LiveIsKept'
  <1>1. \A c \in Clients : Live(held[c])' => Live(held[c])
    BY DEF Live
  <1>2. OneHolder'
    BY <1>1 DEF OneHolder, TokensSafe
  <1>3. OwnRequest'
    <2> SUFFICES ASSUME NEW s \in Requests, NEW d \in Clients,
                        request'[s] # Free, request'[s].old = held[d], Live(held[d])'
                 PROVE  request'[s].client = d
      BY DEF OwnRequest
    <2>1. Live(held[d]) /\ held[d] # NoToken
      BY <1>1 DEF Live
    <2>2. CASE s # r
      BY <2>1, <2>2 DEF OwnRequest, TokensSafe
    <2>3. CASE s = r
      BY <2>1, <2>3 DEF OwnRequest, OneHolder, TokensSafe
    <2> QED BY <2>2, <2>3
  <1>4. LiveIsKept'
    <2> SUFFICES ASSUME NEW c \in Clients, Live(held[c])', held[c] \notin redis'
                 PROVE  InHand(held[c])'
      BY DEF LiveIsKept
    <2>1. Live(held[c]) /\ held[c] \notin spoiled'
      BY <1>1 DEF Live
    <2>2. CASE held[c] \in redis
      BY <2>1, <2>2 DEF InHand, At
    <2>3. CASE InHand(held[c])
      BY <2>3 DEF InHand, At
    <2> QED BY <2>1, <2>2, <2>3 DEF LiveIsKept, TokensSafe
  <1> QED BY <1>2, <1>3, <1>4

-----------------------------------------------------------------------------
\* A request at work, and the records it becomes.
LEMMA RecordsOfWork ==
    ASSUME SessionsTyped, NEW r \in Requests, request[r] # Free,
           NEW pc \in {"looking", "found", "minting", "storing"}, NEW t \in Token
    PROVE  /\ request[r] \in Working
           /\ [request[r] EXCEPT !.pc = pc] \in Working
           /\ [request[r] EXCEPT !.pc = pc].pc = pc
           /\ [request[r] EXCEPT !.pc = pc].old = request[r].old
           /\ [request[r] EXCEPT !.pc = pc].new = request[r].new
           /\ [request[r] EXCEPT !.pc = pc].client = request[r].client
           /\ [request[r] EXCEPT !.pc = pc, !.new = t] \in Working
           /\ [request[r] EXCEPT !.pc = pc, !.new = t].pc = pc
           /\ [request[r] EXCEPT !.pc = pc, !.new = t].old = request[r].old
           /\ [request[r] EXCEPT !.pc = pc, !.new = t].new = t
           /\ [request[r] EXCEPT !.pc = pc, !.new = t].client = request[r].client
  <1>1. request[r] \in Working
    BY AtWork
  <1> QED BY <1>1 DEF Working

\* What remains to be shown of a step of a request that the server serves.
LEMMA ServedStep ==
    ASSUME TokensSafe, UNCHANGED <<run, boot, serving>>, serving,
           SessionsTyped', SpentIsGone',
           \A c \in Clients : held'[c] = held[c] \/ held'[c].run = run,
           \A s \in Requests : At(s, "storing")' =>
              \/ At(s, "storing") /\ request'[s].new = request[s].new
              \/ request'[s].new.run = run,
           OneHolder', OwnRequest', LiveIsKept'
    PROVE  TokensSafe'
  <1>1. NotIssuedYet'
    <2>1. \A c \in Clients : held'[c] # NoToken => held'[c].run <= run'
      BY DEF TokensSafe, NotIssuedYet, SessionsTyped
    <2>2. boot' \notin {"writing", "reading"}
      BY DEF TokensSafe
    <2>3. \A s \in Requests : At(s, "storing")' => request'[s].new.run = run'
      BY DEF TokensSafe, NotIssuedYet
    <2> QED BY <2>1, <2>2, <2>3 DEF NotIssuedYet
  <1> QED BY <1>1 DEF TokensSafe

LEMMA LoginSafe ==
    ASSUME TokensSafe, NEW r \in Requests, NEW c \in Clients, Login(r, c), UNCHANGED boot
    PROVE  TokensSafe'
  <1> DEFINE q == Request("storing", c, NoToken, Minted(Owner[c]))
  <1>1. Minted(Owner[c]) \in Token /\ Minted(Owner[c]).run = run
    BY MintedIsToken, SessionsAssumption DEF TokensSafe
  <1>2. /\ q \in Working /\ q.pc = "storing" /\ q.client = c
        /\ q.old = NoToken /\ q.new = Minted(Owner[c])
    BY <1>1 DEF Working, Request
  <1>3. serving /\ request[r] = Free /\ Becomes(r, q)
        /\ UNCHANGED <<clock, run, serving, redis, held, spent, spoiled>>
    BY DEF Login, histories
  <1> HIDE DEF q
  <1>4. /\ request' \in [Requests -> Working \cup {Free}]
        /\ request'[r] = q /\ \A s \in Requests \ {r} : request'[s] = request[s]
        /\ \A s \in Requests : At(s, "storing")' => request'[s].new \in Token
        /\ \A s \in Requests :
              request'[s] # Free /\ request'[s].pc # "storing" => request'[s].old \in Token
    BY <1>1, <1>2, <1>3, BecomesTyped DEF TokensSafe
  <1>5. SessionsTyped'
    BY <1>3, <1>4 DEF SessionsTyped, TokensSafe
  <1>6. OneHolder' /\ OwnRequest' /\ LiveIsKept'
    BY <1>2, <1>3, <1>4, PromisesKept DEF At
  <1>7. SpentIsGone'
    BY <1>3 DEF SpentIsGone, TokensSafe
  <1> QED BY <1>1, <1>2, <1>3, <1>4, <1>5, <1>6, <1>7, ServedStep DEF At

LEMMA RefreshSafe ==
    ASSUME TokensSafe, NEW r \in Requests, NEW c \in Clients, Refresh(r, c), UNCHANGED boot
    PROVE  TokensSafe'
  <1> DEFINE q == Request("looking", c, held[c], NoToken)
  <1>1. held[c] \in Token
    BY DEF Refresh, SessionsTyped, TokensSafe
  <1>2. /\ q \in Working /\ q.pc = "looking" /\ q.client = c
        /\ q.old = held[c]
    BY <1>1 DEF Working, Request
  <1>3. serving /\ request[r] = Free /\ Becomes(r, q)
        /\ UNCHANGED <<clock, run, serving, redis, held, spent, spoiled>>
    BY DEF Refresh, histories
  <1> HIDE DEF q
  <1>4. /\ request' \in [Requests -> Working \cup {Free}]
        /\ request'[r] = q /\ \A s \in Requests \ {r} : request'[s] = request[s]
        /\ \A s \in Requests : At(s, "storing")' => request'[s].new \in Token
        /\ \A s \in Requests :
              request'[s] # Free /\ request'[s].pc # "storing" => request'[s].old \in Token
    BY <1>1, <1>2, <1>3, BecomesTyped DEF TokensSafe
  <1>5. SessionsTyped'
    BY <1>3, <1>4 DEF SessionsTyped, TokensSafe
  <1>6. OneHolder' /\ OwnRequest' /\ LiveIsKept'
    BY <1>2, <1>3, <1>4, PromisesKept DEF At
  <1>7. SpentIsGone'
    BY <1>3 DEF SpentIsGone, TokensSafe
  <1> QED BY <1>2, <1>3, <1>4, <1>5, <1>6, <1>7, ServedStep DEF At

\* Where the server does not serve no request is at work.
LEMMA WorkIsServed ==
    ASSUME TokensSafe, NEW r \in Requests, request[r] # Free
    PROVE  serving
  BY DEF TokensSafe

LEMMA LookSafe ==
    ASSUME TokensSafe, NEW r \in Requests, Look(r), UNCHANGED boot
    PROVE  TokensSafe'
  <1> DEFINE e == [request[r] EXCEPT !.pc = "found"]
             q == IF request[r].old \in redis THEN e ELSE Free
  <1>1. /\ request[r] # Free /\ request[r].pc = "looking" /\ Becomes(r, q)
        /\ UNCHANGED <<clock, run, serving, redis, held, spent, spoiled>>
    BY DEF Look, At
  <1>2. serving /\ request[r].old \in Token
    BY <1>1, WorkIsServed DEF TokensSafe, SessionsTyped
  <1>3. e \in Working /\ e.pc = "found" /\ e.old = request[r].old /\ e.client = request[r].client
    BY <1>1, <1>2, RecordsOfWork DEF TokensSafe
  <1> HIDE DEF e
  <1>4. /\ q \in Working \cup {Free}
        /\ q # Free => q.pc = "found" /\ q.old = request[r].old /\ q.client = request[r].client
    BY <1>3
  <1> HIDE DEF q
  <1>5. /\ request' \in [Requests -> Working \cup {Free}]
        /\ request'[r] = q /\ \A s \in Requests \ {r} : request'[s] = request[s]
        /\ \A s \in Requests : At(s, "storing")' => request'[s].new \in Token
        /\ \A s \in Requests :
              request'[s] # Free /\ request'[s].pc # "storing" => request'[s].old \in Token
    BY <1>1, <1>2, <1>4, BecomesTyped DEF TokensSafe
  <1>6. SessionsTyped'
    BY <1>1, <1>5 DEF SessionsTyped, TokensSafe
  <1>7. OneHolder' /\ OwnRequest' /\ LiveIsKept'
    BY <1>1, <1>2, <1>4, <1>5, PromisesKept DEF At
  <1>8. SpentIsGone'
    BY <1>1 DEF SpentIsGone, TokensSafe
  <1> QED BY <1>1, <1>2, <1>4, <1>5, <1>6, <1>7, <1>8, ServedStep DEF At

LEMMA ConsumeSafe ==
    ASSUME TokensSafe, NEW r \in Requests, Consume(r), UNCHANGED boot
    PROVE  TokensSafe'
  <1> DEFINE q == [request[r] EXCEPT !.pc = "minting"]
  <1>1. /\ request[r] # Free /\ request[r].pc = "found" /\ Becomes(r, q)
        /\ redis' = redis \ {request[r].old} /\ spent' = spent \cup {request[r].old}
        /\ UNCHANGED <<clock, run, serving, held, spoiled>>
    BY DEF Consume, At
  <1>2. serving /\ request[r].old \in Token
    BY <1>1, WorkIsServed DEF TokensSafe, SessionsTyped
  <1>3. /\ q \in Working /\ q.pc = "minting" /\ q.old = request[r].old
        /\ q.client = request[r].client
    BY <1>1, <1>2, RecordsOfWork DEF TokensSafe
  <1> HIDE DEF q
  <1>4. q # Free
    BY <1>3, WorkIsNotFree
  <1>5. /\ request' \in [Requests -> Working \cup {Free}]
        /\ request'[r] = q /\ \A s \in Requests \ {r} : request'[s] = request[s]
        /\ \A s \in Requests : At(s, "storing")' => request'[s].new \in Token
        /\ \A s \in Requests :
              request'[s] # Free /\ request'[s].pc # "storing" => request'[s].old \in Token
    BY <1>1, <1>2, <1>3, BecomesTyped DEF TokensSafe
  <1>6. SessionsTyped'
    BY <1>1, <1>5 DEF SessionsTyped, TokensSafe
  <1>7. OneHolder' /\ OwnRequest' /\ LiveIsKept'
    BY <1>1, <1>2, <1>3, <1>4, <1>5, PromisesKept DEF At
  <1>8. SpentIsGone'
    BY <1>1 DEF SpentIsGone, TokensSafe
  <1> QED BY <1>1, <1>2, <1>3, <1>5, <1>6, <1>7, <1>8, ServedStep DEF At

LEMMA ConsumeFailsSafe ==
    ASSUME TokensSafe, NEW r \in Requests, ConsumeFails(r), UNCHANGED boot
    PROVE  TokensSafe'
  <1>1. /\ request[r] # Free /\ request[r].pc \in {"looking", "found"} /\ Becomes(r, Free)
        /\ redis' \in {redis, redis \ {request[r].old}}
        /\ spoiled' = spoiled \cup {request[r].old}
        /\ UNCHANGED <<clock, run, serving, held, spent>>
    BY DEF ConsumeFails, At
  <1>2. serving
    BY <1>1, WorkIsServed
  <1>3. /\ request' \in [Requests -> Working \cup {Free}]
        /\ request'[r] = Free /\ \A s \in Requests \ {r} : request'[s] = request[s]
        /\ \A s \in Requests : At(s, "storing")' => request'[s].new \in Token
        /\ \A s \in Requests :
              request'[s] # Free /\ request'[s].pc # "storing" => request'[s].old \in Token
    BY <1>1, BecomesTyped DEF TokensSafe
  <1>4. SessionsTyped'
    BY <1>1, <1>3 DEF SessionsTyped, TokensSafe
  <1>5. OneHolder' /\ OwnRequest' /\ LiveIsKept'
    BY <1>1, <1>2, <1>3, PromisesKept DEF At
  <1>6. SpentIsGone'
    BY <1>1 DEF SpentIsGone, TokensSafe
  <1> QED BY <1>1, <1>2, <1>3, <1>4, <1>5, <1>6, ServedStep DEF At

LEMMA MintSafe ==
    ASSUME TokensSafe, NEW r \in Requests, Mint(r), UNCHANGED boot
    PROVE  TokensSafe'
  <1> DEFINE t == Minted(request[r].old.user)
             q == [request[r] EXCEPT !.pc = "storing", !.new = t]
  <1>1. /\ request[r] # Free /\ request[r].pc = "minting" /\ Becomes(r, q)
        /\ UNCHANGED <<clock, run, serving, redis, held, spent, spoiled>>
    BY DEF Mint, At, histories
  <1>2. serving /\ request[r].old \in Token
    BY <1>1, WorkIsServed DEF TokensSafe, SessionsTyped
  <1>3. t \in Token /\ t.run = run
    <2>1. request[r].old.user \in Users
      BY <1>2 DEF Token
    <2> QED BY <2>1, MintedIsToken DEF TokensSafe
  <1> HIDE DEF t
  <1>4. /\ q \in Working /\ q.pc = "storing" /\ q.old = request[r].old
        /\ q.client = request[r].client /\ q.new = t
    <2>1. request[r] \in Working
      BY <1>1, AtWork DEF TokensSafe
    <2> QED BY <1>3, <2>1 DEF Working
  <1> HIDE DEF q
  <1>5. q # Free
    BY <1>4, WorkIsNotFree
  <1>6. /\ request' \in [Requests -> Working \cup {Free}]
        /\ request'[r] = q /\ \A s \in Requests \ {r} : request'[s] = request[s]
        /\ \A s \in Requests : At(s, "storing")' => request'[s].new \in Token
        /\ \A s \in Requests :
              request'[s] # Free /\ request'[s].pc # "storing" => request'[s].old \in Token
    BY <1>1, <1>3, <1>4, BecomesTyped DEF TokensSafe
  <1>7. SessionsTyped'
    BY <1>1, <1>6 DEF SessionsTyped, TokensSafe
  <1>8. OneHolder' /\ OwnRequest' /\ LiveIsKept'
    BY <1>1, <1>2, <1>4, <1>5, <1>6, PromisesKept DEF At
  <1>9. SpentIsGone'
    BY <1>1 DEF SpentIsGone, TokensSafe
  <1> QED BY <1>1, <1>2, <1>3, <1>4, <1>6, <1>7, <1>8, <1>9, ServedStep DEF At

-----------------------------------------------------------------------------
\* The answers: a client holds a token that was just issued, or spoiled.

\* An answer with t to the request r, which ends.  The other clients keep what
\* they hold; t is stored, or spoiled.
LEMMA AnswerKept ==
    ASSUME TokensSafe, serving, NEW r \in Requests, NEW t \in Token,
           request[r] # Free, request[r].pc = "storing", request[r].new = t,
           UNCHANGED <<clock, run, serving, boot>>,
           request'[r] = Free, \A s \in Requests \ {r} : request'[s] = request[s],
           redis \subseteq redis', spoiled \subseteq spoiled',
           held' = [held EXCEPT ![request[r].client] = t],
           t \in redis \/ InUse(r, t) => t \in spoiled',
           t \in redis' \/ t \in spoiled'
    PROVE  OneHolder' /\ OwnRequest' /\ LiveIsKept'
  <1> DEFINE c == request[r].client
  <1>1. c \in Clients /\ held'[c] = t /\ \A d \in Clients \ {c} : held'[d] = held[d]
    BY AtWork DEF SessionsTyped, TokensSafe, Working
  <1> HIDE DEF c
  <1>2. \A d \in Clients \ {c} : Live(held[d])' => Live(held[d])
    BY <1>1 DEF Live
  \* Nobody else held t, unless it is spoiled, and no other request is about it.
  <1>3. ASSUME NEW d \in Clients \ {c}, Live(held[d])'
        PROVE  held[d] # t
    <2>1. Live(held[d]) /\ held[d] \notin spoiled'
      BY <1>1, <1>2, <1>3 DEF Live
    <2>2. held[d] \in redis \/ InHand(held[d])
      BY <2>1 DEF LiveIsKept, TokensSafe
    <2>3. ASSUME InHand(held[d]), held[d] = t PROVE FALSE
      <3>1. PICK s \in Requests : request[s] # Free /\ request[s].old = t
        BY <2>3 DEF InHand, At
      <3>2. s = r
        BY <2>1, <2>3, <3>1 DEF InUse
      <3> QED BY <2>1, <2>3, <3>1, <3>2 DEF OwnRequest, TokensSafe, c
    <2> QED BY <2>1, <2>2, <2>3
  <1>4. OneHolder'
    BY <1>1, <1>2, <1>3 DEF OneHolder, TokensSafe
  <1>5. OwnRequest'
    <2> SUFFICES ASSUME NEW s \in Requests, NEW d \in Clients,
                        request'[s] # Free, request'[s].old = held'[d], Live(held[d])'
                 PROVE  request'[s].client = d
      BY DEF OwnRequest
    <2>1. s # r /\ request'[s] = request[s]
      OBVIOUS
    <2>2. CASE d = c
      BY <1>1, <2>1, <2>2 DEF InUse, Live
    <2>3. CASE d # c
      BY <1>1, <1>2, <2>1, <2>3 DEF OwnRequest, TokensSafe
    <2> QED BY <2>2, <2>3
  <1>6. LiveIsKept'
    <2> SUFFICES ASSUME NEW d \in Clients, Live(held[d])', held'[d] \notin redis'
                 PROVE  InHand(held[d])'
      BY DEF LiveIsKept
    <2>1. d # c
      BY <1>1 DEF Live
    <2>2. Live(held[d]) /\ held[d] \notin redis /\ held'[d] = held[d]
      BY <1>1, <1>2, <2>1
    <2>3. PICK s \in Requests : (At(s, "minting") \/ At(s, "storing")) /\ request[s].old = held[d]
      BY <2>2 DEF LiveIsKept, TokensSafe, InHand
    <2>4. s # r
      BY <2>1, <2>2, <2>3 DEF OwnRequest, TokensSafe, c
    <2> QED BY <2>2, <2>3, <2>4 DEF InHand, At
  <1> QED BY <1>4, <1>5, <1>6

LEMMA StoreSafe ==
    ASSUME TokensSafe, NEW r \in Requests, Store(r), UNCHANGED boot
    PROVE  TokensSafe'
  <1> DEFINE t == request[r].new
  <1>1. /\ request[r] # Free /\ request[r].pc = "storing" /\ Becomes(r, Free)
        /\ redis' = redis \cup {t} /\ spent' = spent \ {t}
        /\ held' = [held EXCEPT ![request[r].client] = t]
        /\ spoiled' = IF t \in redis \/ InUse(r, t) THEN spoiled \cup {t} ELSE spoiled
        /\ UNCHANGED <<clock, run, serving>>
    BY DEF Store, At
  <1>2. serving /\ t \in Token /\ t.run = run /\ request[r].client \in Clients
    BY <1>1, WorkIsServed, AtWork DEF TokensSafe, SessionsTyped, NotIssuedYet, At, Working
  <1>3. request[r].new = t
    OBVIOUS
  <1> HIDE DEF t
  <1>4. /\ request' \in [Requests -> Working \cup {Free}]
        /\ request'[r] = Free /\ \A s \in Requests \ {r} : request'[s] = request[s]
        /\ \A s \in Requests : At(s, "storing")' => request'[s].new \in Token
        /\ \A s \in Requests :
              request'[s] # Free /\ request'[s].pc # "storing" => request'[s].old \in Token
    BY <1>1, BecomesTyped DEF TokensSafe
  <1>5. SessionsTyped'
    BY <1>1, <1>2, <1>4 DEF SessionsTyped, TokensSafe
  <1>6. OneHolder' /\ OwnRequest' /\ LiveIsKept'
    BY <1>1, <1>2, <1>3, <1>4, AnswerKept
  <1>7. SpentIsGone'
    BY <1>1 DEF SpentIsGone, TokensSafe
  <1>8. \A c \in Clients : held'[c] = held[c] \/ held'[c].run = run
    BY <1>1, <1>2 DEF SessionsTyped, TokensSafe
  <1> QED BY <1>1, <1>2, <1>4, <1>5, <1>6, <1>7, <1>8, ServedStep DEF At

LEMMA StoreFailsSafe ==
    ASSUME TokensSafe, NEW r \in Requests, StoreFails(r), UNCHANGED boot
    PROVE  TokensSafe'
  <1> DEFINE t == request[r].new
  <1>1. /\ request[r] # Free /\ request[r].pc = "storing" /\ Becomes(r, Free)
        /\ redis' \in {redis, redis \cup {t}} /\ spent' = spent \ redis'
        /\ held' = IF request[r].old = NoToken THEN held
                   ELSE [held EXCEPT ![request[r].client] = t]
        /\ spoiled' = spoiled \cup {t}
        /\ UNCHANGED <<clock, run, serving>>
    BY DEF StoreFails, At
  <1>2. serving /\ t \in Token /\ t.run = run /\ request[r].client \in Clients
    BY <1>1, WorkIsServed, AtWork DEF TokensSafe, SessionsTyped, NotIssuedYet, At, Working
  <1>3. request[r].new = t
    OBVIOUS
  <1> HIDE DEF t
  <1>4. /\ request' \in [Requests -> Working \cup {Free}]
        /\ request'[r] = Free /\ \A s \in Requests \ {r} : request'[s] = request[s]
        /\ \A s \in Requests : At(s, "storing")' => request'[s].new \in Token
        /\ \A s \in Requests :
              request'[s] # Free /\ request'[s].pc # "storing" => request'[s].old \in Token
    BY <1>1, BecomesTyped DEF TokensSafe
  <1>5. SessionsTyped'
    BY <1>1, <1>2, <1>4 DEF SessionsTyped, TokensSafe
  <1>6. SpentIsGone'
    BY <1>1 DEF SpentIsGone
  <1>7. \A c \in Clients : held'[c] = held[c] \/ held'[c].run = run
    BY <1>1, <1>2 DEF SessionsTyped, TokensSafe
  <1>8. OneHolder' /\ OwnRequest' /\ LiveIsKept'
    <2>1. CASE request[r].old # NoToken
      BY <1>1, <1>2, <1>3, <1>4, <2>1, AnswerKept
    \* A login: nothing is issued, and no token was in its hand.
    <2>2. CASE request[r].old = NoToken
      <3>1. \A c \in Clients : Live(held[c])' => Live(held[c])
        BY <1>1, <2>2 DEF Live
      <3>2. OneHolder'
        BY <1>1, <2>2, <3>1 DEF OneHolder, TokensSafe
      <3>3. OwnRequest'
        BY <1>1, <1>4, <2>2, <3>1 DEF OwnRequest, TokensSafe
      <3>4. LiveIsKept'
        <4> SUFFICES ASSUME NEW d \in Clients, Live(held[d])', held'[d] \notin redis'
                     PROVE  InHand(held[d])'
          BY DEF LiveIsKept
        <4>1. Live(held[d]) /\ held'[d] = held[d] /\ held[d] \notin redis /\ held[d] # NoToken
          BY <1>1, <2>2, <3>1 DEF Live
        <4>2. PICK s \in Requests :
                 (At(s, "minting") \/ At(s, "storing")) /\ request[s].old = held[d]
          BY <1>2, <4>1 DEF LiveIsKept, TokensSafe, InHand
        <4>3. s # r
          BY <2>2, <4>1, <4>2
        <4> QED BY <1>4, <4>1, <4>2, <4>3 DEF InHand, At
      <3> QED BY <3>2, <3>3, <3>4
    <2> QED BY <2>1, <2>2
  <1> QED BY <1>1, <1>2, <1>4, <1>5, <1>6, <1>7, <1>8, ServedStep DEF At

-----------------------------------------------------------------------------
\* Time goes by.
LEMMA TimeSafe ==
    ASSUME TokensSafe, Tick \/ Expire, UNCHANGED boot
    PROVE  TokensSafe'
  <1>1. /\ clock' \in Nat /\ clock <= clock'
        /\ redis' \subseteq redis
        /\ \A t \in redis \ redis' : t.iat + Life <= clock'
        /\ UNCHANGED <<run, serving, held, request, spent, spoiled>>
    BY DEF Tick, Expire, histories, TokensSafe, SessionsTyped
  <1>2. SessionsTyped' /\ SpentIsGone' /\ NotIssuedYet'
    BY <1>1 DEF SessionsTyped, SpentIsGone, NotIssuedYet, TokensSafe, At
  <1>3. Life \in Nat
    BY SessionsAssumption
  <1>4. ASSUME NEW c \in Clients, Live(held[c])'
        PROVE  Live(held[c]) /\ held[c] \notin redis \ redis'
    <2>1. held[c] \in Token /\ held[c].iat \in Nat
      BY <1>1, <1>4 DEF Live, SessionsTyped, TokensSafe, Token
    <2> QED BY <1>1, <1>3, <1>4, <2>1 DEF Live, SessionsTyped, TokensSafe
  <1>5. serving' => OneHolder' /\ OwnRequest' /\ LiveIsKept'
    BY <1>1, <1>4 DEF OneHolder, OwnRequest, LiveIsKept, InHand, At, TokensSafe
  <1> QED BY <1>1, <1>2, <1>5 DEF TokensSafe

\* A step of the settings that changes nothing of the sessions.
LEMMA SessionsStay ==
    ASSUME TokensSafe, UNCHANGED <<clock, run, serving, redis, held, request, spent, spoiled>>,
           serving <=> boot' = "up",
           boot' \in {"writing", "reading"} => boot \in {"writing", "reading"}
    PROVE  TokensSafe'
  <1>1. SessionsTyped' /\ SpentIsGone' /\ NotIssuedYet'
    BY DEF SessionsTyped, SpentIsGone, NotIssuedYet, TokensSafe, At
  <1>2. serving' => OneHolder' /\ OwnRequest' /\ LiveIsKept'
    BY DEF OneHolder, OwnRequest, LiveIsKept, Live, InHand, At, TokensSafe
  <1> QED BY <1>1, <1>2 DEF TokensSafe

LEMMA BeginStartTokens ==
    ASSUME TokensSafe, BeginStart
    PROVE  TokensSafe'
  <1>1. /\ run' = run + 1 /\ boot' = "writing" /\ boot # "up"
        /\ UNCHANGED <<clock, serving, redis, held, request, used, spent, spoiled>>
    BY DEF BeginStart, histories
  <1>2. ~serving /\ \A r \in Requests : request[r] = Free
    BY <1>1 DEF TokensSafe
  <1>3. SessionsTyped' /\ SpentIsGone'
    BY <1>1 DEF SessionsTyped, SpentIsGone, TokensSafe, At
  <1>4. NotIssuedYet'
    <2>1. ASSUME NEW c \in Clients, held[c] # NoToken
          PROVE  held[c].run <= run' /\ held[c].run # run'
      <3>1. held[c].run \in Nat
        BY <2>1 DEF SessionsTyped, TokensSafe, Token
      <3> QED BY <1>1, <2>1, <3>1 DEF NotIssuedYet, SessionsTyped, TokensSafe
    <2> QED BY <1>1, <1>2, <2>1 DEF NotIssuedYet, At
  <1> QED BY <1>1, <1>2, <1>3, <1>4 DEF TokensSafe

LEMMA LoadSettingsTokens ==
    ASSUME TokensSafe, LoadSettings
    PROVE  TokensSafe'
  <1>1. /\ boot = "reading" /\ ~serving
        /\ UNCHANGED <<clock, run, redis, held, request, spent, spoiled>>
        /\ \/ boot' = "up" /\ serving' = TRUE
           \/ boot' = "failed" /\ UNCHANGED serving
    BY DEF LoadSettings, Serve, sessionVars, histories, TokensSafe
  <1>2. \A r \in Requests : request[r] = Free
    BY <1>1 DEF TokensSafe
  <1>3. SessionsTyped' /\ SpentIsGone' /\ NotIssuedYet'
    BY <1>1 DEF SessionsTyped, SpentIsGone, NotIssuedYet, TokensSafe, At
  <1>4. \A c \in Clients : ~Live(held[c])'
    BY <1>1 DEF Live, NotIssuedYet, TokensSafe
  <1>5. OneHolder' /\ OwnRequest' /\ LiveIsKept'
    BY <1>4 DEF OneHolder, OwnRequest, LiveIsKept
  <1> QED BY <1>1, <1>2, <1>3, <1>5 DEF TokensSafe

LEMMA CrashTokens ==
    ASSUME TokensSafe, Crash
    PROVE  TokensSafe'
  <1>1. /\ serving' = FALSE /\ request' = [r \in Requests |-> Free] /\ boot' = "off"
        /\ UNCHANGED <<clock, run, redis, held, spent, spoiled>>
    BY DEF Crash, Stop, histories
  <1>2. SessionsTyped' /\ SpentIsGone' /\ NotIssuedYet'
    BY <1>1 DEF SessionsTyped, SpentIsGone, NotIssuedYet, TokensSafe, At
  <1> QED BY <1>1, <1>2 DEF TokensSafe

LEMMA InitTokens == ServerInit => TokensSafe
  <1> SUFFICES ASSUME ServerInit PROVE TokensSafe
    OBVIOUS
  <1>1. SessionsTyped /\ SpentIsGone /\ NotIssuedYet
    BY DEF ServerInit, SessionsInit, SessionsTyped, SpentIsGone, NotIssuedYet, At
  <1> QED BY <1>1 DEF ServerInit, SessionsInit, TokensSafe

LEMMA StepTokens ==
    ASSUME TokensSafe, [ServerNext]_serverVars
    PROVE  TokensSafe'
  <1>1. CASE SessionStep /\ UNCHANGED configVars
    <2>1. UNCHANGED boot
      BY <1>1 DEF configVars
    <2>2. CASE Tick \/ Expire
      BY <2>1, <2>2, TimeSafe
    <2>3. ASSUME NEW r \in Requests,
                 \/ \E c \in Clients : Login(r, c) \/ Refresh(r, c)
                 \/ Look(r) \/ Consume(r) \/ ConsumeFails(r) \/ Mint(r) \/ Store(r)
                 \/ StoreFails(r)
          PROVE  TokensSafe'
      BY <2>1, <2>3, LoginSafe, RefreshSafe, LookSafe, ConsumeSafe, ConsumeFailsSafe,
         MintSafe, StoreSafe, StoreFailsSafe
    <2> QED BY <1>1, <2>2, <2>3 DEF SessionStep
  <1>2. CASE BeginStart
    BY <1>2, BeginStartTokens
  <1>3. CASE LoadSettings
    BY <1>3, LoadSettingsTokens
  <1>4. CASE Crash
    BY <1>4, CrashTokens
  <1>5. CASE WriteSecret \/ UNCHANGED serverVars
    BY <1>5, SessionsStay DEF WriteSecret, serverVars, sessionVars, histories, configVars, TokensSafe
  <1>6. ASSUME NEW w \in Saves,
               (\E form \in Forms : ReadFile(w, form)) \/ Truncate(w) \/ WriteFile(w)
                  \/ SaveFails(w)
        PROVE  TokensSafe'
    <2>1. UNCHANGED <<clock, run, serving, redis, held, request, spent, spoiled, boot>>
      BY <1>6 DEF ReadFile, Truncate, WriteFile, SaveFails, sessionVars, histories
    <2> QED BY <2>1, SessionsStay DEF TokensSafe
  <1> QED BY <1>1, <1>2, <1>3, <1>4, <1>5, <1>6 DEF ServerNext

\* What the clients are promised follows from the invariant.
LEMMA LiveIsHonoured == TokensSafe => LatestIsHonoured
  <1> SUFFICES ASSUME TokensSafe, NEW c \in Clients, serving, held[c] # NoToken,
                      held[c] \notin spoiled, held[c].run = run,
                      clock < held[c].iat + Life,
                      \A r \in Requests : request[r] # Free => request[r].old # held[c]
               PROVE  held[c] \in redis
    BY DEF LatestIsHonoured
  <1>1. held[c] \in redis \/ InHand(held[c])
    BY DEF Live, LiveIsKept, TokensSafe
  <1> QED BY <1>1 DEF InHand, At

-----------------------------------------------------------------------------
\* A token is exchanged once.

\* Who has found a token that was exchanged, or that another has found as well,
\* has overlapped with the other.
MarkedTwice ==
    \A r \in Requests : At(r, "found") =>
        /\ request[r].old \in spent => request[r].old \in overlapped
        /\ FoundByOther(r, request[r].old) => request[r].old \in overlapped

\* All steps but the looks and the exchanges.
LEMMA MarksStay ==
    ASSUME MarkedTwice, spent' \subseteq spent, overlapped \subseteq overlapped',
           \A r \in Requests : At(r, "found")' => request'[r] = request[r]
    PROVE  MarkedTwice'
  BY DEF MarkedTwice, FoundByOther, At

LEMMA LookMarks ==
    ASSUME TokensSafe, MarkedTwice, NEW r \in Requests, Look(r)
    PROVE  MarkedTwice'
  <1> DEFINE t == request[r].old
             e == [request[r] EXCEPT !.pc = "found"]
  <1>1. /\ request[r] # Free /\ request[r].pc = "looking"
        /\ request' = [request EXCEPT ![r] = IF t \in redis THEN e ELSE Free]
        /\ overlapped' = overlapped \cup {u \in redis : u = t /\ FoundByOther(r, u)}
        /\ spent' = spent
    BY DEF Look, At, Becomes
  <1>2. request \in [Requests -> Working \cup {Free}] /\ t \in Token
    BY <1>1 DEF TokensSafe, SessionsTyped
  <1>3. e.old = t
    BY <1>1, <1>2, RecordsOfWork DEF TokensSafe
  <1> HIDE DEF e, t
  <1>4. /\ request'[r] = IF t \in redis THEN e ELSE Free
        /\ \A s \in Requests \ {r} : request'[s] = request[s]
    BY <1>1, <1>2
  <1> SUFFICES ASSUME NEW s \in Requests, At(s, "found")'
               PROVE  /\ request'[s].old \in spent' => request'[s].old \in overlapped'
                      /\ FoundByOther(s, request[s].old)' => request'[s].old \in overlapped'
    BY DEF MarkedTwice
  <1>5. CASE s = r
    <2>1. t \in redis /\ request'[s].old = t
      BY <1>3, <1>4, <1>5 DEF At
    <2>2. t \notin spent
      BY <2>1 DEF TokensSafe, SpentIsGone
    <2>3. FoundByOther(s, request[s].old)' => FoundByOther(r, t)
      BY <1>4, <1>5, <2>1 DEF FoundByOther, At
    <2> QED BY <1>1, <2>1, <2>2, <2>3
  <1>6. CASE s # r
    <2>1. At(s, "found") /\ request'[s] = request[s]
      BY <1>4, <1>6 DEF At
    <2>2. ASSUME FoundByOther(s, request[s].old)' PROVE request[s].old \in overlapped'
      <3>1. PICK q \in Requests \ {s} : At(q, "found")' /\ request'[q].old = request[s].old
        BY <2>1, <2>2 DEF FoundByOther
      <3>2. CASE q = r
        <4>1. t \in redis /\ request[s].old = t
          BY <1>3, <1>4, <3>1, <3>2 DEF At
        <4>2. FoundByOther(r, t)
          BY <1>6, <2>1, <4>1 DEF FoundByOther
        <4> QED BY <1>1, <4>1, <4>2
      <3>3. CASE q # r
        BY <1>1, <1>4, <2>1, <3>1, <3>3 DEF MarkedTwice, FoundByOther, At
      <3> QED BY <3>2, <3>3
    <2> QED BY <1>1, <2>1, <2>2 DEF MarkedTwice
  <1> QED BY <1>5, <1>6

LEMMA ConsumeMarks ==
    ASSUME TokensSafe, MarkedTwice, NEW r \in Requests, Consume(r)
    PROVE  MarkedTwice'
  <1> DEFINE t == request[r].old
             q == [request[r] EXCEPT !.pc = "minting"]
  <1>1. /\ At(r, "found") /\ request' = [request EXCEPT ![r] = q]
        /\ spent' = spent \cup {t} /\ overlapped' = overlapped
    BY DEF Consume, Becomes
  <1>2. request \in [Requests -> Working \cup {Free}] /\ t \in Token
    BY <1>1 DEF TokensSafe, SessionsTyped, At
  <1>3. q.pc = "minting"
    BY <1>1, <1>2, RecordsOfWork DEF TokensSafe, At
  <1> HIDE DEF q
  <1>4. request'[r] = q /\ \A s \in Requests \ {r} : request'[s] = request[s]
    BY <1>1, <1>2
  <1>5. \A s \in Requests : At(s, "found")' => s # r /\ request'[s] = request[s] /\ At(s, "found")
    BY <1>3, <1>4 DEF At
  <1> SUFFICES ASSUME NEW s \in Requests, At(s, "found")'
               PROVE  /\ request'[s].old \in spent' => request'[s].old \in overlapped'
                      /\ FoundByOther(s, request[s].old)' => request'[s].old \in overlapped'
    BY DEF MarkedTwice
  <1>6. request[s].old = t => FoundByOther(s, t)
    BY <1>1, <1>5 DEF FoundByOther
  <1>7. FoundByOther(s, request[s].old)' => FoundByOther(s, request[s].old)
    BY <1>5 DEF FoundByOther
  <1> QED BY <1>1, <1>5, <1>6, <1>7 DEF MarkedTwice

LEMMA StepMarks ==
    ASSUME TokensSafe, MarkedTwice, [ServerNext]_serverVars
    PROVE  MarkedTwice'
  <1> USE DEF histories
  <1>1. ASSUME NEW r \in Requests, ConsumeFails(r) \/ Store(r) \/ StoreFails(r)
        PROVE  MarkedTwice'
    <2>1. /\ spent' \subseteq spent /\ overlapped' = overlapped
          /\ request' = [request EXCEPT ![r] = Free]
      BY <1>1 DEF ConsumeFails, Store, StoreFails, Becomes
    <2>2. \A s \in Requests : At(s, "found")' => request'[s] = request[s]
      BY <2>1 DEF At, TokensSafe, SessionsTyped
    <2> QED BY <2>1, <2>2, MarksStay
  <1>2. ASSUME NEW r \in Requests, NEW c \in Clients, Login(r, c) \/ Refresh(r, c)
        PROVE  MarkedTwice'
    <2>1. PICK q : q.pc # "found" /\ request' = [request EXCEPT ![r] = q]
      BY <1>2 DEF Login, Refresh, Becomes, Request
    <2>2. \A s \in Requests : At(s, "found")' => request'[s] = request[s]
      BY <2>1 DEF At, TokensSafe, SessionsTyped
    <2> QED BY <1>2, <2>2, MarksStay DEF Login, Refresh
  <1>3. ASSUME NEW r \in Requests, Mint(r) PROVE MarkedTwice'
    <2>1. PICK q : q.pc # "found" /\ request' = [request EXCEPT ![r] = q]
      <3> DEFINE q == [request[r] EXCEPT !.pc = "storing", !.new = Minted(request[r].old.user)]
      <3>1. request[r] \in Working /\ request' = [request EXCEPT ![r] = q]
        BY <1>3, AtWork DEF Mint, At, Becomes, TokensSafe
      <3>2. q.pc = "storing"
        BY <3>1 DEF Working
      <3> QED BY <3>1, <3>2
    <2>2. \A s \in Requests : At(s, "found")' => request'[s] = request[s]
      BY <2>1 DEF At, TokensSafe, SessionsTyped
    <2> QED BY <1>3, <2>2, MarksStay DEF Mint
  <1>4. CASE Tick \/ Expire
    BY <1>4, MarksStay DEF Tick, Expire
  <1>5. CASE BeginStart \/ WriteSecret \/ LoadSettings \/ UNCHANGED serverVars
    <2>1. UNCHANGED <<request, spent, overlapped>>
      BY <1>5 DEF BeginStart, WriteSecret, LoadSettings, Serve, serverVars, sessionVars
    <2> QED BY <2>1, MarksStay
  <1>6. CASE Crash
    <2>1. request' = [r \in Requests |-> Free] /\ UNCHANGED <<spent, overlapped>>
      BY <1>6 DEF Crash, Stop
    <2> QED BY <2>1, MarksStay DEF At
  <1>7. ASSUME NEW w \in Saves,
               (\E form \in Forms : ReadFile(w, form)) \/ Truncate(w) \/ WriteFile(w)
                  \/ SaveFails(w)
        PROVE  MarkedTwice'
    <2>1. UNCHANGED <<request, spent, overlapped>>
      BY <1>7 DEF ReadFile, Truncate, WriteFile, SaveFails, sessionVars
    <2> QED BY <2>1, MarksStay
  <1> QED BY <1>1, <1>2, <1>3, <1>4, <1>5, <1>6, <1>7, LookMarks, ConsumeMarks
          DEF ServerNext, SessionStep

\* A refresh token is exchanged at most once until it is issued again, unless two
\* requests had found it before either deleted it: for any number of requests,
\* failures of Redis and restarts of the server.
THEOREM TokensAreUsedOnce == ServerSpec => UsedOnce
  <1>1. ServerInit => TokensSafe /\ MarkedTwice
    BY InitTokens DEF ServerInit, SessionsInit, MarkedTwice, At
  <1>2. TokensSafe /\ MarkedTwice /\ [ServerNext]_serverVars => TokensSafe' /\ MarkedTwice'
    BY StepTokens, StepMarks
  <1>3. MarkedTwice =>
          [\A r \in Requests :
              Exchanged(r) => request[r].old \notin spent \ overlapped]_sessionVars
    BY DEF MarkedTwice, Exchanged
  <1> QED BY <1>1, <1>2, <1>3, PTL DEF ServerSpec, UsedOnce

-----------------------------------------------------------------------------
\* The token of a client's latest answer stays usable while it is valid, if
\* Redis did not fail on it and it was not issued while it was stored or in use.
THEOREM LatestStaysHonoured == ServerSpec => []LatestIsHonoured
  <1>1. ServerInit => TokensSafe
    BY InitTokens
  <1>2. TokensSafe /\ [ServerNext]_serverVars => TokensSafe'
    BY StepTokens
  <1>3. TokensSafe => LatestIsHonoured
    BY LiveIsHonoured
  <1> QED BY <1>1, <1>2, <1>3, PTL DEF ServerSpec

-----------------------------------------------------------------------------
\* The file of settings.

WorkingSave == [pc : {"read", "truncated"}, form : Forms, read : File]

SettingsTyped ==
    /\ file = {} \/ \E c \in File : file = {c}
    /\ content \in File
    /\ save \in [Saves -> {NoSave} \cup WorkingSave]
    /\ asked \subseteq Forms
    /\ doubt \in BOOLEAN
    /\ boot \in {"off", "writing", "reading", "up", "failed"}
    /\ boot \in {"writing", "reading", "up"} => file # {}
    /\ Saving # {} => boot = "up"
    /\ boot = "up" => proxy.default \in DOMAIN proxy.providers

\* Where the only save has emptied the file, it holds what was there.
CutByOne ==
    /\ file = {Bare}
    /\ \E w \in Saves : /\ save[w].pc = "truncated" /\ Loads(save[w].read)
                        /\ save[w].read.secret = secret

InFull ==
    /\ \A w \in Saves : save[w].pc # "truncated"
    /\ \A c \in file : /\ Loads(c) /\ c.secret = secret
                       /\ \A w \in Saves : save[w].pc = "read" => save[w].read = c

\* Without a doubt about the file: what it holds, or what is being written, can be
\* read.
WholeSoFar ==
    /\ boot # "failed"
    /\ boot \in {"off", "reading"} => \A c \in file : Loads(c)
    /\ boot = "writing" => Loads(content)
    /\ \A v, w \in Saving : v = w
    /\ boot = "up" => CutByOne \/ InFull

SettingsSafe == SettingsTyped /\ (~doubt => WholeSoFar)

LEMMA BareIsTyped == Bare \in File /\ ~Loads(Bare)
  BY DEF Bare, File, NoSecret, Loads

LEMMA ContentIsFile ==
    ASSUME SettingsTyped, file # {}
    PROVE  Content \in File /\ file = {Content}
  BY DEF SettingsTyped, Content

LEMMA SecretTyped ==
    ASSUME NEW c \in File, NEW s \in Nat
    PROVE  /\ WithSecret(c, s) \in File
           /\ Loads(WithSecret(c, s)) <=> Loads(c)
           /\ WithSecret(c, s).secret = s
  BY DEF WithSecret, File, Loads

\* What the name of a block may read as.
BlockNames == Providers \cup {"", Broken}

LEMMA BlockFields ==
    Block = {b \in [name : BlockNames, line : Providers \cup {Other},
                    model : Models \cup {Broken}, url : Urls \cup {Broken},
                    key : Keys \cup {Broken}] :
                b.line # Other => b.name = Reads[b.line]}
  BY DEF Block, BlockNames

\* A saved block replaces another, or is added: the blocks are blocks.
LEMMA BlockReplaced ==
    ASSUME NEW bs \in Seq(Block), NEW b \in Block, NEW i
    PROVE  Append(bs, b) \in Seq(Block) /\ [bs EXCEPT ![i] = b] \in Seq(Block)
  <1>1. bs \in [1..Len(bs) -> Block] /\ Len(bs) \in Nat
    OBVIOUS
  <1>2. [bs EXCEPT ![i] = b] \in [1..Len(bs) -> Block]
    BY <1>1
  <1>3. Append(bs, b) \in Seq(Block)
    OBVIOUS
  <1> QED BY <1>1, <1>2, <1>3

LEMMA SavedTyped ==
    ASSUME NEW c \in File, NEW form \in Forms
    PROVE  /\ Saved(c, form) \in File
           /\ Saved(c, form).whole = c.whole /\ Saved(c, form).secret = c.secret
  <1> DEFINE llm == IF c.llm = Missing THEN c.llm ELSE Reads[form.provider]
             i == Min(Found(c, form.provider))
             blocks == IF Found(c, form.provider) = {} THEN Append(c.blocks, Asked(form))
                       ELSE [c.blocks EXCEPT ![i] = Asked(form)]
  <1>1. form \in Form
    BY ServerAssumption
  <1>2. Asked(form) \in Block
    <2> DEFINE url == IF form.url = "" THEN OpenAiUrl ELSE form.url
    <2>1. /\ form.provider \in Providers /\ form.model \in Models /\ form.key \in Keys
          /\ url \in Urls
      BY <1>1, ConfigAssumption DEF Form
    <2> HIDE DEF url
    <2>2. /\ Reads[form.provider] \in BlockNames
          /\ Reads[form.model] \in Models \cup {Broken}
          /\ Reads[url] \in Urls \cup {Broken} /\ Reads[form.key] \in Keys \cup {Broken}
      BY <2>1, ConfigAssumption DEF BlockNames
    <2>3. Asked(form) = [name |-> Reads[form.provider], line |-> form.provider,
                         model |-> Reads[form.model], url |-> Reads[url],
                         key |-> Reads[form.key]]
      BY DEF Asked, url
    <2> QED BY <2>1, <2>2, <2>3, BlockFields
  <1>3. c.blocks \in Seq(Block) /\ c.llm \in Providers \cup {"", Missing, Broken}
    BY DEF File
  <1>4. llm \in Providers \cup {"", Missing, Broken}
    BY <1>1, <1>3, ConfigAssumption DEF Form
  <1>5. blocks \in Seq(Block)
    <2> HIDE DEF i
    <2> QED BY <1>2, <1>3, BlockReplaced
  <1>6. Saved(c, form) = [c EXCEPT !.llm = llm, !.blocks = blocks]
    BY DEF Saved
  <1> HIDE DEF llm, blocks
  <1> QED BY <1>4, <1>5, <1>6 DEF File

\* A set of naturals has a least one.
LEMMA LeastOf ==
    ASSUME NEW S \in SUBSET Nat, S # {}
    PROVE  Min(S) \in S
  <1> DEFINE T == {1..n : n \in S}
  <1>1. T \subseteq FiniteSubsetsOf(Nat)
    <2> SUFFICES ASSUME NEW n \in S PROVE 1..n \in FiniteSubsetsOf(Nat)
      OBVIOUS
    <2>1. n \in Int /\ 1 \in Int /\ 1..n \subseteq Nat
      OBVIOUS
    <2>2. IsFiniteSet(1..n)
      BY <2>1, FS_Interval
    <2> QED BY <2>1, <2>2 DEF FiniteSubsetsOf
  <1>2. T # {}
    OBVIOUS
  <1>3. IsWellFoundedOn(StrictSubsetOrdering(Nat), FiniteSubsetsOf(Nat))
    BY FS_StrictSubsetOrderingWellFounded
  <1> HIDE DEF T
  <1>4. \E x \in T : \A y \in T : ~ (<<y, x>> \in StrictSubsetOrdering(Nat))
    BY <1>1, <1>2, <1>3, WFMin
  <1>5. PICK m \in S : \A y \in T : ~ (<<y, 1..m>> \in StrictSubsetOrdering(Nat))
    BY <1>4 DEF T
  <1>6. ASSUME NEW k \in S PROVE m <= k
    <2>1. 1..k \in T /\ 1..k \subseteq Nat /\ 1..m \subseteq Nat
      BY DEF T
    <2>2. ~ (1..k \subseteq 1..m /\ 1..k # 1..m)
      BY <1>5, <2>1 DEF StrictSubsetOrdering
    <2>3. ASSUME k < m PROVE 1..k \subseteq 1..m /\ m \in 1..m /\ m \notin 1..k
      BY <2>3
    <2> QED BY <2>2, <2>3
  <1> QED BY <1>6 DEF Min

LEMMA BlocksOf ==
    ASSUME NEW c \in File
    PROVE  /\ c.blocks \in Seq(Block) /\ DOMAIN c.blocks = 1..Len(c.blocks)
           /\ Len(c.blocks) \in Nat /\ NamesIn(c) \subseteq BlockNames
           /\ \A p : Found(c, p) \subseteq Nat
  <1> DEFINE bs == c.blocks
  <1>1. bs \in Seq(Block)
    BY DEF File
  <1>2. ASSUME NEW S, NEW s \in Seq(S)
        PROVE  DOMAIN s = 1..Len(s) /\ Len(s) \in Nat /\ \A i \in 1..Len(s) : s[i] \in S
    OBVIOUS
  <1> HIDE DEF bs
  <1>3. /\ DOMAIN bs = 1..Len(bs) /\ Len(bs) \in Nat
        /\ \A i \in 1..Len(bs) : bs[i] \in Block
    BY <1>1, <1>2
  <1>4. \A i \in 1..Len(bs) : bs[i].name \in BlockNames
    BY <1>3, BlockFields
  <1>5. 1..Len(bs) \subseteq Nat
    BY <1>3
  <1> USE DEF bs
  <1> QED BY <1>1, <1>3, <1>4, <1>5 DEF NamesIn, Found

\* A block shows what its lines read as.
LEMMA AskedNames ==
    ASSUME NEW form \in Forms
    PROVE  /\ Asked(form).name = Reads[form.provider] /\ Asked(form).line = form.provider
           /\ form.provider \in Providers /\ form.provider # "" /\ form.provider # Other
  BY ServerAssumption, ConfigAssumption DEF Asked, Form

LEMMA LineReads ==
    ASSUME NEW c \in File, NEW i \in DOMAIN c.blocks, NEW p \in Providers,
           c.blocks[i].line = p
    PROVE  c.blocks[i].name = Reads[p]
  <1>1. c.blocks \in Seq(Block)
    BY BlocksOf
  <1>2. c.blocks[i] \in Block
    BY <1>1
  <1>3. p # Other
    BY ConfigAssumption
  <1> QED BY <1>2, <1>3, BlockFields

\* A save leaves the other blocks where they are, and has its own at one place.
LEMMA SavedBlocks ==
    ASSUME NEW c \in File, NEW form \in Forms
    PROVE  \E k :
             LET d == Saved(c, form)
             IN  /\ k \in DOMAIN d.blocks /\ d.blocks[k] = Asked(form)
                 /\ DOMAIN d.blocks = DOMAIN c.blocks \cup {k}
                 /\ \A i \in DOMAIN c.blocks \ {k} : d.blocks[i] = c.blocks[i]
                 /\ k \in DOMAIN c.blocks => c.blocks[k].line = form.provider
                 /\ k \notin DOMAIN c.blocks => Found(c, form.provider) = {}
                 /\ d.llm = IF c.llm = Missing THEN Missing ELSE Reads[form.provider]
  <1> DEFINE d == Saved(c, form)
             b == Asked(form)
  <1>1. /\ c.blocks \in Seq(Block) /\ DOMAIN c.blocks = 1..Len(c.blocks)
        /\ Len(c.blocks) \in Nat /\ Found(c, form.provider) \subseteq Nat
    BY BlocksOf
  <1>2. /\ d.llm = IF c.llm = Missing THEN Missing ELSE Reads[form.provider]
        /\ d.blocks = IF Found(c, form.provider) = {} THEN Append(c.blocks, b)
                      ELSE [c.blocks EXCEPT ![Min(Found(c, form.provider))] = b]
    BY DEF Saved, File
  <1> HIDE DEF d, b
  <1>3. CASE Found(c, form.provider) = {}
    <2>1. d.blocks = Append(c.blocks, b)
      BY <1>2, <1>3
    <2>2. /\ DOMAIN d.blocks = DOMAIN c.blocks \cup {Len(c.blocks) + 1}
          /\ d.blocks[Len(c.blocks) + 1] = b
          /\ \A i \in DOMAIN c.blocks \ {Len(c.blocks) + 1} : d.blocks[i] = c.blocks[i]
          /\ Len(c.blocks) + 1 \notin DOMAIN c.blocks
      BY <1>1, <2>1
    <2> QED BY <1>2, <1>3, <2>2 DEF d, b
  <1>4. CASE Found(c, form.provider) # {}
    <2> DEFINE k == Min(Found(c, form.provider))
    <2>1. k \in Found(c, form.provider)
      BY <1>1, <1>4, LeastOf
    <2>2. d.blocks = [c.blocks EXCEPT ![k] = b]
      BY <1>2, <1>4
    <2>3. k \in DOMAIN c.blocks /\ c.blocks[k].line = form.provider
      BY <2>1 DEF Found
    <2> HIDE DEF k
    <2>4. /\ DOMAIN d.blocks = DOMAIN c.blocks /\ d.blocks[k] = b
          /\ \A i \in DOMAIN c.blocks \ {k} : d.blocks[i] = c.blocks[i]
      BY <1>1, <2>2, <2>3
    <2> QED BY <1>2, <2>3, <2>4 DEF d, b
  <1> QED BY <1>3, <1>4

\* What can be read stays so when what is put into it can be read.
LEMMA SavedLoads ==
    ASSUME NEW c \in File, NEW form \in Forms, Loads(c), Readable(form)
    PROVE  Loads(Saved(c, form))
  <1> DEFINE d == Saved(c, form)
             b == Asked(form)
  <1>1. PICK k : /\ k \in DOMAIN d.blocks /\ d.blocks[k] = b
                 /\ DOMAIN d.blocks = DOMAIN c.blocks \cup {k}
                 /\ \A i \in DOMAIN c.blocks \ {k} : d.blocks[i] = c.blocks[i]
                 /\ k \in DOMAIN c.blocks => c.blocks[k].line = form.provider
                 /\ k \notin DOMAIN c.blocks => Found(c, form.provider) = {}
                 /\ d.llm = IF c.llm = Missing THEN Missing ELSE Reads[form.provider]
    BY SavedBlocks
  <1>2. d.whole
    BY SavedTyped DEF Loads
  <1>3. Broken \notin Values(b) /\ b.name = Reads[form.provider]
    BY AskedNames DEF Readable
  <1>4. Reads[form.provider] # Broken
    BY <1>3 DEF Values
  <1> HIDE DEF d, b
  <1>5. d.llm # Broken
    BY <1>1, <1>4 DEF Missing, Broken
  <1>6. ASSUME NEW i \in DOMAIN d.blocks
        PROVE  Broken \notin Values(d.blocks[i])
    <2>1. CASE i = k
      BY <1>1, <1>3, <2>1
    <2>2. CASE i # k
      <3>1. i \in DOMAIN c.blocks /\ d.blocks[i] = c.blocks[i]
        BY <1>1, <2>2
      <3> QED BY <3>1 DEF Loads
    <2> QED BY <2>1, <2>2
  <1> QED BY <1>2, <1>5, <1>6 DEF Loads, d

\* The default provider is one of those that are served.
LEMMA ProxyHasDefault ==
    ASSUME NEW c \in File
    PROVE  Proxy(c).default \in DOMAIN Proxy(c).providers
  <1>1. CASE c.blocks = <<>>
    BY <1>1 DEF Proxy
  <1>2. CASE c.blocks # <<>>
    <2>1. c.blocks \in Seq(Block)
      BY DEF File
    <2>2. 1 \in DOMAIN c.blocks
      BY <1>2, <2>1
    <2>3. DefaultIn(c) \in NamesIn(c)
      BY <2>2 DEF DefaultIn, NamesIn
    <2> QED BY <1>2, <2>3 DEF Proxy
  <1> QED BY <1>1, <1>2

LEMMA InitSettings == ServerInit => SettingsSafe
  <1> SUFFICES ASSUME ServerInit PROVE SettingsSafe
    OBVIOUS
  <1>1. file = {} \/ \E c \in File : file = {c} /\ Loads(c)
    BY ServerAssumption DEF ServerInit
  <1>2. \A w \in Saves : save[w].pc = "free"
    BY DEF ServerInit, NoSave
  <1>3. Saving = {}
    BY <1>2 DEF Saving
  <1>4. SettingsTyped
    BY <1>1, <1>3, BareIsTyped DEF SettingsTyped, ServerInit
  <1>5. WholeSoFar
    BY <1>1, <1>3 DEF WholeSoFar, ServerInit
  <1> QED BY <1>4, <1>5 DEF SettingsSafe

\* Where the saves and the state of the process stay.
LEMMA SameSaves ==
    ASSUME UNCHANGED save
    PROVE  Saving' = Saving
  BY DEF Saving

LEMMA BeginStartSettings ==
    ASSUME SettingsSafe, BeginStart, run \in Nat
    PROVE  SettingsSafe'
  <1>1. /\ boot \in {"off", "failed"} /\ boot' = "writing" /\ run' \in Nat
        /\ doubt' = (doubt \/ file = {})
        /\ content' = WithSecret(Existing(file), run') /\ file' = {Bare}
        /\ UNCHANGED <<secret, proxy, save, asked>>
    BY DEF BeginStart
  <1>2. Existing(file) \in File /\ (file # {} => Existing(file) = Content)
    BY ContentIsFile, BareIsTyped DEF Existing, Content, SettingsSafe
  <1>3. content' \in File /\ (Loads(content') <=> Loads(Existing(file)))
    BY <1>1, <1>2, SecretTyped
  <1>4. SettingsTyped'
    BY <1>1, <1>3, BareIsTyped, SameSaves DEF SettingsTyped, SettingsSafe
  <1>5. ASSUME ~doubt' PROVE WholeSoFar'
    <2>1. ~doubt /\ file # {} /\ WholeSoFar /\ boot = "off"
      BY <1>1, <1>5 DEF SettingsSafe, SettingsTyped, WholeSoFar
    <2>2. Content \in file
      BY <2>1, ContentIsFile DEF SettingsSafe
    <2> QED BY <1>1, <1>2, <1>3, <2>1, <2>2, SameSaves DEF WholeSoFar
  <1> QED BY <1>4, <1>5 DEF SettingsSafe

LEMMA WriteSecretSettings ==
    ASSUME SettingsSafe, WriteSecret
    PROVE  SettingsSafe'
  <1>1. /\ boot = "writing" /\ file' = {content} /\ boot' = "reading"
        /\ UNCHANGED <<content, secret, proxy, save, asked, doubt>>
    BY DEF WriteSecret
  <1>2. SettingsTyped'
    BY <1>1, SameSaves DEF SettingsTyped, SettingsSafe
  <1>3. ~doubt' => WholeSoFar'
    BY <1>1, SameSaves DEF WholeSoFar, SettingsSafe
  <1> QED BY <1>2, <1>3 DEF SettingsSafe

LEMMA LoadSettingsSettings ==
    ASSUME SettingsSafe, LoadSettings
    PROVE  SettingsSafe'
  <1>1. /\ boot = "reading" /\ content' = Bare
        /\ \/ /\ Loads(Content) /\ boot' = "up" /\ secret' = Content.secret
              /\ proxy' = Proxy(Content)
           \/ ~Loads(Content) /\ boot' = "failed" /\ UNCHANGED <<secret, proxy>>
        /\ UNCHANGED <<file, save, asked, doubt>>
    BY DEF LoadSettings
  <1>2. Content \in File /\ file = {Content} /\ Saving = {}
    BY <1>1, ContentIsFile DEF SettingsSafe, SettingsTyped
  <1>3. \A w \in Saves : save[w].pc = "free"
    BY <1>2 DEF Saving
  <1>4. boot' = "up" => proxy'.default \in DOMAIN proxy'.providers
    BY <1>1, <1>2, ProxyHasDefault
  <1>5. SettingsTyped'
    BY <1>1, <1>2, <1>4, BareIsTyped, SameSaves DEF SettingsTyped, SettingsSafe
  <1>6. ASSUME ~doubt' PROVE WholeSoFar'
    <2>1. Loads(Content)
      BY <1>1, <1>2, <1>6 DEF SettingsSafe, WholeSoFar
    <2>2. boot' = "up" /\ secret' = Content.secret
      BY <1>1, <2>1
    <2>3. InFull'
      BY <1>1, <1>2, <1>3, <2>1, <2>2 DEF InFull
    <2> QED BY <1>1, <1>2, <2>2, <2>3, SameSaves DEF WholeSoFar
  <1> QED BY <1>5, <1>6 DEF SettingsSafe

-----------------------------------------------------------------------------
\* The saves.

\* One save changes: the others are what they were.
LEMMA SaveChanges ==
    ASSUME SettingsTyped, NEW w \in Saves, NEW q \in {NoSave} \cup WorkingSave,
           save' = [save EXCEPT ![w] = q]
    PROVE  /\ save' \in [Saves -> {NoSave} \cup WorkingSave]
           /\ save'[w] = q /\ \A v \in Saves \ {w} : save'[v] = save[v]
           /\ Saving' \subseteq Saving \cup {w}
           /\ q.pc = "free" => Saving' \subseteq Saving \ {w}
  BY DEF SettingsTyped, Saving

LEMMA SaveEnds ==
    ASSUME SettingsTyped, NEW w \in Saves, save' = [save EXCEPT ![w] = NoSave]
    PROVE  /\ save' \in [Saves -> {NoSave} \cup WorkingSave]
           /\ save'[w] = NoSave /\ \A v \in Saves \ {w} : save'[v] = save[v]
           /\ Saving' \subseteq Saving \ {w}
  <1> NoSave.pc = "free"
    BY DEF NoSave
  <1> QED BY SaveChanges

LEMMA SaveAtWork ==
    ASSUME SettingsTyped, NEW w \in Saves, save[w].pc \in {"read", "truncated"}
    PROVE  save[w] \in WorkingSave /\ w \in Saving /\ boot = "up"
  BY DEF SettingsTyped, NoSave, Saving

LEMMA ReadFileSettings ==
    ASSUME SettingsSafe, NEW w \in Saves, NEW form \in Forms, ReadFile(w, form)
    PROVE  SettingsSafe'
  <1> DEFINE q == [pc |-> "read", form |-> form, read |-> Content]
  <1>1. /\ boot = "up" /\ save[w].pc = "free" /\ save' = [save EXCEPT ![w] = q]
        /\ doubt' = (doubt \/ Saving # {})
        /\ UNCHANGED <<file, boot, content, secret, proxy, asked>>
    BY DEF ReadFile
  <1>2. Content \in File /\ file = {Content}
    BY <1>1, ContentIsFile DEF SettingsSafe, SettingsTyped
  <1>3. q \in WorkingSave /\ q.pc = "read" /\ q.read = Content
    BY <1>2 DEF WorkingSave
  <1> HIDE DEF q
  <1>4. /\ save' \in [Saves -> {NoSave} \cup WorkingSave]
        /\ save'[w] = q /\ \A v \in Saves \ {w} : save'[v] = save[v]
        /\ Saving' \subseteq Saving \cup {w}
    BY <1>1, <1>3, SaveChanges DEF SettingsSafe
  <1>5. SettingsTyped'
    BY <1>1, <1>4 DEF SettingsTyped, SettingsSafe
  <1>6. ASSUME ~doubt' PROVE WholeSoFar'
    <2>1. Saving = {} /\ WholeSoFar
      BY <1>1, <1>6 DEF SettingsSafe, SettingsTyped
    <2>2. \A v \in Saves : save[v].pc = "free"
      BY <2>1 DEF Saving
    <2>3. InFull
      BY <1>1, <2>1, <2>2 DEF WholeSoFar, CutByOne
    <2>4. InFull'
      BY <1>1, <1>2, <1>3, <1>4, <2>2, <2>3 DEF InFull
    <2> QED BY <1>1, <1>4, <2>1, <2>4 DEF WholeSoFar
  <1> QED BY <1>5, <1>6 DEF SettingsSafe

LEMMA TruncateSettings ==
    ASSUME SettingsSafe, NEW w \in Saves, Truncate(w)
    PROVE  SettingsSafe'
  <1> DEFINE q == [save[w] EXCEPT !.pc = "truncated"]
  <1>1. /\ save[w].pc = "read" /\ save' = [save EXCEPT ![w] = q] /\ file' = {Bare}
        /\ UNCHANGED <<boot, content, secret, proxy, asked, doubt>>
    BY DEF Truncate
  <1>2. save[w] \in WorkingSave /\ w \in Saving /\ boot = "up"
    BY <1>1, SaveAtWork DEF SettingsSafe
  <1>3. q \in WorkingSave /\ q.pc = "truncated" /\ q.read = save[w].read
    BY <1>2 DEF WorkingSave
  <1> HIDE DEF q
  <1>4. /\ save' \in [Saves -> {NoSave} \cup WorkingSave]
        /\ save'[w] = q /\ \A v \in Saves \ {w} : save'[v] = save[v]
        /\ Saving' \subseteq Saving \cup {w}
    BY <1>1, <1>3, SaveChanges DEF SettingsSafe
  <1>5. SettingsTyped'
    BY <1>1, <1>2, <1>4, BareIsTyped DEF SettingsTyped, SettingsSafe
  <1>6. ASSUME ~doubt' PROVE WholeSoFar'
    <2>1. WholeSoFar /\ file # {}
      BY <1>1, <1>2, <1>6 DEF SettingsSafe, SettingsTyped
    <2>2. \A v \in Saves : save[v].pc = "truncated" => v = w
      BY <1>2, <2>1 DEF WholeSoFar, Saving
    <2>3. InFull
      BY <1>1, <1>2, <2>1, <2>2 DEF WholeSoFar, CutByOne
    <2>4. Loads(save[w].read) /\ save[w].read.secret = secret
      BY <1>1, <2>1, <2>3 DEF InFull
    <2>5. CutByOne'
      BY <1>1, <1>3, <1>4, <2>4 DEF CutByOne
    <2> QED BY <1>1, <1>2, <1>4, <2>1, <2>5 DEF WholeSoFar
  <1> QED BY <1>5, <1>6 DEF SettingsSafe

LEMMA WriteFileSettings ==
    ASSUME SettingsSafe, NEW w \in Saves, WriteFile(w)
    PROVE  SettingsSafe'
  <1> DEFINE new == Saved(save[w].read, save[w].form)
  <1>1. /\ save[w].pc = "truncated" /\ save' = [save EXCEPT ![w] = NoSave]
        /\ file' = {new} \/ (Content # Bare /\ file' = {Bare})
        /\ doubt' = (doubt \/ ~Readable(save[w].form))
        /\ UNCHANGED <<boot, content, secret, proxy>>
    BY DEF WriteFile
  <1>2. save[w] \in WorkingSave /\ w \in Saving /\ boot = "up"
    BY <1>1, SaveAtWork DEF SettingsSafe
  <1>3. save[w].read \in File /\ save[w].form \in Forms
    BY <1>2 DEF WorkingSave
  <1>4. /\ new \in File /\ new.secret = save[w].read.secret
        /\ Loads(save[w].read) /\ Readable(save[w].form) => Loads(new)
    BY <1>3, SavedTyped, SavedLoads
  <1> HIDE DEF new
  <1>5. /\ save' \in [Saves -> {NoSave} \cup WorkingSave]
        /\ save'[w] = NoSave /\ \A v \in Saves \ {w} : save'[v] = save[v]
        /\ Saving' \subseteq Saving \ {w}
    BY <1>1, SaveEnds DEF SettingsSafe
  <1>6. asked' \subseteq Forms
    BY <1>3 DEF WriteFile, SettingsSafe, SettingsTyped
  <1>7. SettingsTyped'
    BY <1>1, <1>2, <1>4, <1>5, <1>6, BareIsTyped DEF SettingsTyped, SettingsSafe
  <1>8. ASSUME ~doubt' PROVE WholeSoFar'
    <2>1. WholeSoFar /\ Readable(save[w].form)
      BY <1>1, <1>8 DEF SettingsSafe, SettingsTyped
    <2>2. CutByOne
      BY <1>1, <1>2, <2>1 DEF WholeSoFar, InFull
    <2>3. Loads(save[w].read) /\ save[w].read.secret = secret
      BY <1>2, <2>1, <2>2 DEF CutByOne, WholeSoFar, Saving
    <2>4. file' = {new}
      BY <1>1, <2>2 DEF CutByOne, Content
    <2>5. \A v \in Saves : save'[v].pc = "free"
      BY <1>2, <1>5, <2>1 DEF WholeSoFar, Saving, NoSave
    <2>6. InFull'
      BY <1>1, <1>4, <2>1, <2>3, <2>4, <2>5 DEF InFull
    <2> QED BY <1>1, <1>2, <1>5, <2>1, <2>6 DEF WholeSoFar
  <1> QED BY <1>7, <1>8 DEF SettingsSafe

LEMMA SaveFailsSettings ==
    ASSUME SettingsSafe, NEW w \in Saves, SaveFails(w)
    PROVE  SettingsSafe'
  <1>1. /\ save[w].pc \in {"read", "truncated"} /\ save' = [save EXCEPT ![w] = NoSave]
        /\ doubt' = (doubt \/ save[w].pc = "truncated")
        /\ UNCHANGED <<file, boot, content, secret, proxy, asked>>
    BY DEF SaveFails
  <1>2. w \in Saving /\ boot = "up"
    BY <1>1, SaveAtWork DEF SettingsSafe
  <1>3. /\ save' \in [Saves -> {NoSave} \cup WorkingSave]
        /\ save'[w] = NoSave /\ \A v \in Saves \ {w} : save'[v] = save[v]
        /\ Saving' \subseteq Saving \ {w}
    BY <1>1, SaveEnds DEF SettingsSafe
  <1>4. SettingsTyped'
    BY <1>1, <1>2, <1>3 DEF SettingsTyped, SettingsSafe
  <1>5. ASSUME ~doubt' PROVE WholeSoFar'
    <2>1. WholeSoFar /\ save[w].pc = "read"
      BY <1>1, <1>5 DEF SettingsSafe, SettingsTyped
    <2>2. InFull
      BY <1>2, <2>1 DEF WholeSoFar, CutByOne, Saving
    <2>3. InFull'
      BY <1>1, <1>3, <2>2 DEF InFull, NoSave
    <2> QED BY <1>1, <1>2, <1>3, <2>1, <2>3 DEF WholeSoFar
  <1> QED BY <1>4, <1>5 DEF SettingsSafe

LEMMA CrashSettings ==
    ASSUME SettingsSafe, Crash
    PROVE  SettingsSafe'
  <1>1. /\ boot \in {"writing", "reading", "up"} /\ boot' = "off" /\ content' = Bare
        /\ save' = [w \in Saves |-> NoSave]
        /\ doubt' = (doubt \/ boot = "writing" \/ \E w \in Saves : save[w].pc = "truncated")
        /\ UNCHANGED <<file, asked>>
    BY DEF Crash
  <1>2. \A w \in Saves : save'[w].pc = "free"
    BY <1>1 DEF NoSave
  <1>3. Saving' = {}
    BY <1>2 DEF Saving
  <1>4. SettingsTyped'
    BY <1>1, <1>3, BareIsTyped DEF SettingsTyped, SettingsSafe
  <1>5. ASSUME ~doubt' PROVE WholeSoFar'
    <2>1. WholeSoFar /\ boot # "writing" /\ \A w \in Saves : save[w].pc # "truncated"
      BY <1>1, <1>5 DEF SettingsSafe, SettingsTyped
    <2>2. \A c \in file : Loads(c)
      BY <1>1, <2>1 DEF WholeSoFar, CutByOne, InFull
    <2> QED BY <1>1, <1>3, <2>2 DEF WholeSoFar
  <1> QED BY <1>4, <1>5 DEF SettingsSafe

LEMMA StepSettings ==
    ASSUME TokensSafe, SettingsSafe, [ServerNext]_serverVars
    PROVE  SettingsSafe'
  <1>1. run \in Nat
    BY DEF TokensSafe, SessionsTyped
  <1>2. CASE UNCHANGED configVars
    BY <1>2, SameSaves DEF configVars, SettingsSafe, SettingsTyped, WholeSoFar, CutByOne, InFull
  <1>3. CASE BeginStart \/ WriteSecret \/ LoadSettings \/ Crash
    BY <1>1, <1>3, BeginStartSettings, WriteSecretSettings, LoadSettingsSettings, CrashSettings
  <1>4. ASSUME NEW w \in Saves,
               (\E form \in Forms : ReadFile(w, form)) \/ Truncate(w) \/ WriteFile(w)
                  \/ SaveFails(w)
        PROVE  SettingsSafe'
    BY <1>4, ReadFileSettings, TruncateSettings, WriteFileSettings, SaveFailsSettings
  <1> QED BY <1>2, <1>3, <1>4 DEF ServerNext, serverVars

\* What the run checks follows from the two invariants.
LEMMA TypedAndWhole == TokensSafe /\ SettingsSafe => ServerTypeOK /\ FileStaysWhole
  <1> SUFFICES ASSUME TokensSafe, SettingsSafe PROVE ServerTypeOK /\ FileStaysWhole
    OBVIOUS
  <1>1. ServerTypeOK
    BY DEF ServerTypeOK, TokensSafe, SessionsTyped, SettingsSafe, SettingsTyped
  <1>2. ASSUME ~doubt
        PROVE  boot # "failed" /\ (boot = "up" /\ Saving = {} =>
                                      Loads(Content) /\ Content.secret = secret)
    <2>1. WholeSoFar
      BY <1>2 DEF SettingsSafe
    <2>2. ASSUME boot = "up", Saving = {}
          PROVE  Loads(Content) /\ Content.secret = secret
      <3>1. InFull
        BY <2>1, <2>2 DEF WholeSoFar, CutByOne, Saving
      <3>2. Content \in file
        BY <2>2, ContentIsFile DEF SettingsSafe, SettingsTyped
      <3> QED BY <3>1, <3>2 DEF InFull
    <2> QED BY <2>1, <2>2 DEF WholeSoFar
  <1> QED BY <1>1, <1>2 DEF FileStaysWhole

\* Types, and no call ends for want of a provider, whatever the file and the saves.
THEOREM ServerTypeCorrect == ServerSpec => []ServerTypeOK
  <1>1. ServerInit => TokensSafe /\ SettingsSafe
    BY InitTokens, InitSettings
  <1>2. TokensSafe /\ SettingsSafe /\ [ServerNext]_serverVars => TokensSafe' /\ SettingsSafe'
    BY StepTokens, StepSettings
  <1>3. TokensSafe /\ SettingsSafe => ServerTypeOK
    BY TypedAndWhole
  <1> QED BY <1>1, <1>2, <1>3, PTL DEF ServerSpec

\* The file of settings can be read at the next start and shows the secret of
\* the running server, unless a write was cut or failed, a file had to be
\* created, saves overlapped, or a text was saved that cannot be read.
THEOREM FileKeepsWhole == ServerSpec => []FileStaysWhole
  <1>1. ServerInit => TokensSafe /\ SettingsSafe
    BY InitTokens, InitSettings
  <1>2. TokensSafe /\ SettingsSafe /\ [ServerNext]_serverVars => TokensSafe' /\ SettingsSafe'
    BY StepTokens, StepSettings
  <1>3. TokensSafe /\ SettingsSafe => FileStaysWhole
    BY TypedAndWhole
  <1> QED BY <1>1, <1>2, <1>3, PTL DEF ServerSpec

-----------------------------------------------------------------------------
\* What was saved is served.

\* The content has what was asked for, in the blocks a start reads it from.
Kept(c, forms, default) ==
    /\ default # "" => c.llm = default /\ default \in NamesIn(c)
    /\ \A form \in forms :
          /\ Faithful(form) /\ Reachable(c, form.provider)
          /\ \E i \in DOMAIN c.blocks : c.blocks[i] = Asked(form)

\* Without a doubt about the file it is in the file, or in what will be written
\* over it.
KeptInFile == \A c \in file : Kept(c, asked, latest)
SavedIsKept ==
    /\ boot \in {"off", "reading"} => KeptInFile
    /\ boot = "writing" => Kept(content, asked, latest)
    /\ boot = "up" /\ (\A w \in Saves : save[w].pc # "truncated") => KeptInFile
    /\ \A w \in Saves : save[w].pc = "truncated" => Kept(save[w].read, asked, latest)
KeepsSaved == ~doubt => SavedIsKept

\* A start that reads the content serves it.
LEMMA KeptIsServed ==
    ASSUME NEW c \in File, NEW forms \in SUBSET Forms, NEW default, Kept(c, forms, default)
    PROVE  /\ default # "" => Proxy(c).default = default
           /\ \A form \in forms : Proxy(c).providers[form.provider] = Entry(Asked(form))
  <1>1. /\ c.blocks \in Seq(Block) /\ DOMAIN c.blocks = 1..Len(c.blocks)
        /\ Len(c.blocks) \in Nat /\ NamesIn(c) \subseteq BlockNames
    BY BlocksOf
  <1>2. ASSUME default # ""
        PROVE  Proxy(c).default = default
    <2>1. c.llm = default /\ default \in NamesIn(c)
      BY <1>2 DEF Kept
    <2>2. default \notin {"", Missing}
      BY <1>1, <1>2, <2>1, ConfigAssumption DEF Missing, Broken, BlockNames
    <2>3. c.blocks # <<>>
      BY <1>1, <2>1 DEF NamesIn
    <2> QED BY <2>1, <2>2, <2>3 DEF Proxy, DefaultIn
  <1>3. ASSUME NEW form \in forms
        PROVE  Proxy(c).providers[form.provider] = Entry(Asked(form))
    <2> DEFINE p == form.provider
    <2>1. Reachable(c, p) /\ Asked(form).name = p /\ Reads[p] = p
      BY <1>3, AskedNames DEF Kept, Faithful
    <2>2. PICK i \in DOMAIN c.blocks : c.blocks[i] = Asked(form)
      BY <1>3 DEF Kept
    <2>3. {j \in DOMAIN c.blocks : c.blocks[j].name = p} = {i}
      BY <2>1, <2>2 DEF Reachable
    <2>4. i <= i /\ i >= i
      BY <1>1
    <2>5. Min({i}) = i /\ Max({i}) = i
      BY <2>4 DEF Min, Max
    <2>6. Chosen(c, p) = Asked(form)
      BY <2>2, <2>3, <2>5 DEF Chosen
    <2>7. p \in NamesIn(c) /\ c.blocks # <<>>
      BY <1>1, <2>1, <2>2 DEF NamesIn
    <2> HIDE DEF p
    <2>8. Proxy(c).providers[p] = Entry(Chosen(c, p))
      BY <2>7 DEF Proxy
    <2> QED BY <2>6, <2>8 DEF p
  <1> QED BY <1>2, <1>3

LEMMA SavedKeeps ==
    ASSUME NEW c \in File, NEW form \in Forms, NEW forms \in SUBSET Forms, NEW default,
           Kept(c, forms, default)
    PROVE  Kept(Saved(c, form),
                {f \in forms : f.provider \notin {form.provider, Reads[form.provider]}}
                   \cup {f \in {form} : Faithful(form) /\ Reachable(c, form.provider)},
                IF c.llm = Missing THEN "" ELSE Reads[form.provider])
  <1> DEFINE d == Saved(c, form)
             b == Asked(form)
             p == form.provider
  <1>1. PICK k : /\ k \in DOMAIN d.blocks /\ d.blocks[k] = b
                 /\ DOMAIN d.blocks = DOMAIN c.blocks \cup {k}
                 /\ \A i \in DOMAIN c.blocks \ {k} : d.blocks[i] = c.blocks[i]
                 /\ k \in DOMAIN c.blocks => c.blocks[k].line = p
                 /\ k \notin DOMAIN c.blocks => Found(c, p) = {}
                 /\ d.llm = IF c.llm = Missing THEN Missing ELSE Reads[p]
    BY SavedBlocks
  <1>2. b.name = Reads[p] /\ b.line = p /\ p \in Providers
    BY AskedNames
  <1>3. c.llm # Missing => d.llm = Reads[p] /\ Reads[p] \in NamesIn(d)
    BY <1>1, <1>2 DEF NamesIn
  <1>4. ASSUME NEW f \in forms, f.provider \notin {p, Reads[p]}
        PROVE  /\ Faithful(f) /\ Reachable(d, f.provider)
               /\ \E i \in DOMAIN d.blocks : d.blocks[i] = Asked(f)
    <2> DEFINE q == f.provider
    <2>1. /\ Faithful(f) /\ Reachable(c, q) /\ Asked(f).name = q /\ Asked(f).line = q
          /\ Reads[q] = q /\ \E i \in DOMAIN c.blocks : c.blocks[i] = Asked(f)
      BY AskedNames DEF Kept, Faithful
    <2>2. q # p /\ q # Reads[p]
      BY <1>4
    <2> HIDE DEF d, b, p, q
    <2>3. \A i \in DOMAIN d.blocks : d.blocks[i].name = q =>
             i \in DOMAIN c.blocks /\ d.blocks[i] = c.blocks[i]
      BY <1>1, <1>2, <2>2
    <2>4. Reachable(d, q)
      BY <2>1, <2>3 DEF Reachable
    <2>5. PICK i \in DOMAIN c.blocks : c.blocks[i] = Asked(f)
      BY <2>1
    <2>6. i # k
      BY <1>1, <2>1, <2>2, <2>5
    <2>7. d.blocks[i] = Asked(f) /\ i \in DOMAIN d.blocks
      BY <1>1, <2>5, <2>6
    <2> QED BY <2>1, <2>4, <2>7 DEF q
  <1>5. ASSUME Faithful(form), Reachable(c, p)
        PROVE  /\ Reachable(d, p)
               /\ \E i \in DOMAIN d.blocks : d.blocks[i] = b
    <2>1. Reads[p] = p
      BY <1>5 DEF Faithful
    <2> HIDE DEF d, b, p
    <2>2. \A i \in DOMAIN c.blocks : c.blocks[i].name = p => i = k
      <3>1. CASE k \in DOMAIN c.blocks
        <4>1. c.blocks[k].name = p
          BY <1>1, <1>2, <2>1, <3>1, LineReads
        <4> QED BY <1>5, <2>1, <3>1, <4>1 DEF Reachable
      <3>2. CASE k \notin DOMAIN c.blocks
        BY <1>1, <1>5, <2>1, <3>2 DEF Reachable, Found
      <3> QED BY <3>1, <3>2
    <2>3. \A i \in DOMAIN d.blocks : d.blocks[i].name = p => i = k
      BY <1>1, <2>2
    <2>4. Reachable(d, p)
      BY <1>1, <1>2, <2>1, <2>3 DEF Reachable
    <2> QED BY <1>1, <2>4
  <1> DEFINE old == {g \in forms : g.provider \notin {p, Reads[p]}}
             new == {g \in {form} : Faithful(form) /\ Reachable(c, p)}
  <1> HIDE DEF d, b, p
  <1>6. ASSUME NEW f \in old \cup new
        PROVE  /\ Faithful(f) /\ Reachable(d, f.provider)
               /\ \E i \in DOMAIN d.blocks : d.blocks[i] = Asked(f)
    <2>1. CASE f \in old
      BY <1>4, <2>1
    <2>2. CASE f \in new
      <3>1. f = form /\ Faithful(form) /\ Reachable(c, p)
        BY <2>2
      <3>2. f.provider = p /\ Asked(f) = b
        BY <3>1 DEF p, b
      <3> QED BY <1>5, <3>1, <3>2
    <2> QED BY <2>1, <2>2
  <1> HIDE DEF old, new
  <1>7. Kept(d, old \cup new, IF c.llm = Missing THEN "" ELSE Reads[p])
    BY <1>3, <1>6 DEF Kept
  <1> QED BY <1>7 DEF d, p, old, new

\* Only the secret is new in what a start writes.
LEMMA SecretKeeps ==
    ASSUME NEW c \in File, NEW s, NEW forms, NEW default, Kept(c, forms, default)
    PROVE  Kept(WithSecret(c, s), forms, default)
  <1>1. WithSecret(c, s).llm = c.llm /\ WithSecret(c, s).blocks = c.blocks
    BY DEF WithSecret, File
  <1> DEFINE d == WithSecret(c, s)
  <1>2. d.llm = c.llm /\ d.blocks = c.blocks
    BY <1>1
  <1> HIDE DEF d
  <1>3. NamesIn(d) = NamesIn(c)
    BY <1>2 DEF NamesIn
  <1>4. \A p : Reachable(c, p) => Reachable(d, p)
    BY <1>2 DEF Reachable
  <1>5. ASSUME NEW form \in forms
        PROVE  /\ Faithful(form) /\ Reachable(d, form.provider)
               /\ \E i \in DOMAIN d.blocks : d.blocks[i] = Asked(form)
    BY <1>2, <1>4 DEF Kept
  <1>6. default # "" => d.llm = default /\ default \in NamesIn(d)
    BY <1>2, <1>3 DEF Kept
  <1>7. Kept(d, forms, default)
    BY <1>5, <1>6 DEF Kept
  <1> QED BY <1>7 DEF d

LEMMA InitKept == ServerInit => KeepsSaved
  BY DEF ServerInit, KeepsSaved, SavedIsKept, KeptInFile, Kept, NoSave

LEMMA StartKeeps ==
    ASSUME SettingsSafe, KeepsSaved, BeginStart \/ WriteSecret \/ LoadSettings
    PROVE  KeepsSaved'
  <1> SUFFICES ASSUME ~doubt' PROVE SavedIsKept'
    BY DEF KeepsSaved
  <1>1. ~doubt /\ SettingsTyped /\ WholeSoFar /\ SavedIsKept /\ UNCHANGED <<save, asked, latest>>
    BY DEF BeginStart, WriteSecret, LoadSettings, SettingsSafe, SettingsTyped, KeepsSaved
  <1>2. \A w \in Saves : save[w].pc = "free" \/ boot = "up"
    BY <1>1 DEF SettingsTyped, Saving
  <1>3. CASE BeginStart
    <2>1. /\ boot = "off" /\ file # {} /\ boot' = "writing"
          /\ content' = WithSecret(Existing(file), run')
      BY <1>1, <1>3 DEF BeginStart, WholeSoFar
    <2>2. Existing(file) = Content /\ Content \in File /\ Content \in file
      BY <1>1, <2>1, ContentIsFile DEF Existing, Content
    <2>3. Kept(Content, asked, latest)
      BY <1>1, <2>1, <2>2 DEF SavedIsKept, KeptInFile
    <2>4. \A s : Kept(WithSecret(Content, s), asked, latest)
      BY <2>2, <2>3, SecretKeeps
    <2>5. Kept(content', asked, latest)
      BY <2>1, <2>2, <2>4
    <2>6. Kept(content, asked, latest)'
      BY <1>1, <2>5
    <2> QED BY <1>1, <1>2, <2>1, <2>6 DEF SavedIsKept
  <1>4. CASE WriteSecret
    <2>1. boot = "writing" /\ file' = {content} /\ boot' = "reading"
      BY <1>4 DEF WriteSecret
    <2>2. KeptInFile'
      BY <1>1, <2>1 DEF SavedIsKept, KeptInFile
    <2> QED BY <1>1, <1>2, <2>1, <2>2 DEF SavedIsKept
  <1>5. CASE LoadSettings
    <2>1. boot = "reading" /\ file' = file /\ boot' \in {"up", "failed"}
      BY <1>5 DEF LoadSettings
    <2>2. KeptInFile'
      BY <1>1, <2>1 DEF SavedIsKept, KeptInFile
    <2> QED BY <1>1, <1>2, <2>1, <2>2 DEF SavedIsKept
  <1> QED BY <1>3, <1>4, <1>5

LEMMA CrashKeeps ==
    ASSUME SettingsSafe, KeepsSaved, Crash
    PROVE  KeepsSaved'
  <1> SUFFICES ASSUME ~doubt' PROVE SavedIsKept'
    BY DEF KeepsSaved
  <1>1. /\ boot' = "off" /\ save' = [w \in Saves |-> NoSave]
        /\ UNCHANGED <<file, asked, latest>> /\ boot \in {"reading", "up"}
        /\ ~doubt /\ \A w \in Saves : save[w].pc # "truncated"
    BY DEF Crash, SettingsSafe, SettingsTyped
  <1>2. KeptInFile
    BY <1>1 DEF KeepsSaved, SavedIsKept
  <1>3. KeptInFile'
    BY <1>1, <1>2 DEF KeptInFile
  <1> QED BY <1>1, <1>3 DEF SavedIsKept, NoSave

LEMMA SaveKeeps ==
    ASSUME SettingsSafe, KeepsSaved, NEW w \in Saves,
           (\E form \in Forms : ReadFile(w, form)) \/ Truncate(w) \/ WriteFile(w) \/ SaveFails(w)
    PROVE  KeepsSaved'
  <1> SUFFICES ASSUME ~doubt' PROVE SavedIsKept'
    BY DEF KeepsSaved
  <1>1. ~doubt /\ SettingsTyped /\ WholeSoFar /\ SavedIsKept /\ UNCHANGED <<boot, content>>
    BY DEF ReadFile, Truncate, WriteFile, SaveFails, SettingsSafe, SettingsTyped, KeepsSaved
  <1>2. CASE \E form \in Forms : ReadFile(w, form)
    <2>1. PICK form \in Forms :
             /\ boot = "up" /\ Saving = {}
             /\ save' = [save EXCEPT ![w] = [pc |-> "read", form |-> form, read |-> Content]]
             /\ UNCHANGED <<file, boot, content, asked, latest>>
      BY <1>1, <1>2 DEF ReadFile
    <2>2. \A v \in Saves : save[v].pc = "free"
      BY <2>1 DEF Saving
    <2>3. \A v \in Saves : save'[v].pc \in {"free", "read"}
      BY <1>1, <2>1, <2>2 DEF SettingsTyped
    <2>4. KeptInFile'
      BY <1>1, <2>1, <2>2 DEF SavedIsKept, KeptInFile
    <2> QED BY <2>1, <2>3, <2>4 DEF SavedIsKept
  <1>3. CASE Truncate(w)
    <2>1. /\ save[w].pc = "read" /\ save' = [save EXCEPT ![w].pc = "truncated"]
          /\ UNCHANGED <<boot, asked, latest>>
      BY <1>3 DEF Truncate
    <2>2. save[w] \in WorkingSave /\ w \in Saving /\ boot = "up"
      BY <1>1, <2>1, SaveAtWork
    <2>3. \A v \in Saves \ {w} : save[v].pc = "free"
      BY <1>1, <2>2 DEF WholeSoFar, Saving
    <2>4. InFull
      BY <1>1, <2>1, <2>2, <2>3 DEF WholeSoFar, CutByOne
    <2>5. Content \in file
      BY <1>1, <2>2, ContentIsFile DEF SettingsTyped
    <2>6. Kept(save[w].read, asked, latest)
      BY <1>1, <2>1, <2>2, <2>4, <2>5 DEF InFull, SavedIsKept, KeptInFile
    <2>7. save'[w].pc = "truncated" /\ save'[w].read = save[w].read
      BY <1>1, <2>1, <2>2 DEF SettingsTyped, WorkingSave
    <2>8. \A v \in Saves \ {w} : save'[v] = save[v]
      BY <1>1, <2>1 DEF SettingsTyped
    <2>9. \A v \in Saves : save'[v].pc = "truncated" => Kept(save'[v].read, asked', latest')
      BY <2>1, <2>3, <2>6, <2>7, <2>8
    <2> QED BY <2>1, <2>2, <2>7, <2>9 DEF SavedIsKept
  <1>4. CASE WriteFile(w)
    <2> DEFINE c == save[w].read
               form == save[w].form
    <2>1. /\ save[w].pc = "truncated" /\ save' = [save EXCEPT ![w] = NoSave]
          /\ file' = {Saved(c, form)} \/ (Content # Bare /\ file' = {Bare})
          /\ asked' = {f \in asked : f.provider \notin {form.provider, Reads[form.provider]}}
                       \cup {f \in {form} : Faithful(form) /\ Reachable(c, form.provider)}
          /\ latest' = IF c.llm = Missing THEN "" ELSE Reads[form.provider]
      BY <1>4 DEF WriteFile
    <2>2. save[w] \in WorkingSave /\ w \in Saving /\ boot = "up"
      BY <1>1, <2>1, SaveAtWork
    <2>3. c \in File /\ form \in Forms /\ asked \in SUBSET Forms
      BY <1>1, <2>2 DEF WorkingSave, SettingsTyped
    <2>4. Kept(c, asked, latest)
      BY <1>1, <2>1 DEF SavedIsKept
    <2>5. CutByOne
      BY <1>1, <2>1, <2>2 DEF WholeSoFar, InFull
    <2>6. file' = {Saved(c, form)}
      BY <2>1, <2>5 DEF CutByOne, Content
    <2>7. \A v \in Saves : save'[v].pc = "free"
      <3>1. \A v \in Saves \ {w} : save[v].pc = "free"
        BY <1>1, <2>2 DEF WholeSoFar, Saving
      <3> QED BY <1>1, <2>1, <3>1 DEF SettingsTyped, NoSave
    <2> HIDE DEF c, form
    <2>8. Kept(Saved(c, form),
               {f \in asked : f.provider \notin {form.provider, Reads[form.provider]}}
                  \cup {f \in {form} : Faithful(form) /\ Reachable(c, form.provider)},
               IF c.llm = Missing THEN "" ELSE Reads[form.provider])
      BY <2>3, <2>4, SavedKeeps
    <2>9. KeptInFile'
      BY <2>1, <2>6, <2>8 DEF KeptInFile
    <2> QED BY <1>1, <2>2, <2>7, <2>9 DEF SavedIsKept
  <1>5. CASE SaveFails(w)
    <2>1. /\ save[w].pc = "read" /\ save' = [save EXCEPT ![w] = NoSave]
          /\ UNCHANGED <<file, boot, content, asked, latest>>
      BY <1>1, <1>5 DEF SaveFails, SettingsSafe, SettingsTyped
    <2>2. w \in Saving /\ boot = "up"
      BY <1>1, <2>1, SaveAtWork
    <2>3. \A v \in Saves \ {w} : save[v].pc = "free"
      BY <1>1, <2>2 DEF WholeSoFar, Saving
    <2>4. \A v \in Saves : save[v].pc # "truncated" /\ save'[v].pc = "free"
      BY <1>1, <2>1, <2>3 DEF SettingsTyped, NoSave
    <2>5. KeptInFile'
      BY <1>1, <2>1, <2>2, <2>4 DEF SavedIsKept, KeptInFile
    <2> QED BY <2>1, <2>2, <2>4, <2>5 DEF SavedIsKept
  <1> QED BY <1>2, <1>3, <1>4, <1>5

LEMMA StepKept ==
    ASSUME SettingsSafe, KeepsSaved, [ServerNext]_serverVars
    PROVE  KeepsSaved'
  <1>1. CASE UNCHANGED configVars
    BY <1>1 DEF configVars, KeepsSaved, SavedIsKept, KeptInFile
  <1> QED BY <1>1, StartKeeps, CrashKeeps, SaveKeeps DEF ServerNext, serverVars

\* What reads as it is is served as it was asked for.
LEMMA FaithfulEntry ==
    ASSUME NEW form \in Forms, Faithful(form)
    PROVE  Entry(Asked(form)) =
             [model |-> form.model,
              url |-> IF form.url = "" THEN OpenAiUrl ELSE form.url,
              key |-> IF form.provider \in DOMAIN EnvKeys
                      THEN EnvKeys[form.provider] ELSE form.key]
  BY ConfigAssumption DEF Entry, Asked, Faithful

\* The providers of a server that has just started are those of its file.
LEMMA StartServes ==
    ASSUME SettingsSafe, KeepsSaved, [ServerNext]_serverVars,
           boot' = "up", boot # "up", ~doubt
    PROVE  /\ latest # "" => proxy'.default = latest
           /\ \A form \in asked :
                 proxy'.providers[form.provider] =
                     [model |-> form.model,
                      url |-> IF form.url = "" THEN OpenAiUrl ELSE form.url,
                      key |-> IF form.provider \in DOMAIN EnvKeys
                              THEN EnvKeys[form.provider] ELSE form.key]
  <1>1. LoadSettings
    BY DEF ServerNext, serverVars, configVars, BeginStart, WriteSecret, Crash, ReadFile,
           Truncate, WriteFile, SaveFails
  <1>2. boot = "reading" /\ proxy' = Proxy(Content)
    BY <1>1 DEF LoadSettings
  <1>3. Content \in File /\ Content \in file /\ asked \in SUBSET Forms
    BY <1>2, ContentIsFile DEF SettingsSafe, SettingsTyped
  <1>4. Kept(Content, asked, latest)
    BY <1>2, <1>3 DEF KeepsSaved, SavedIsKept, KeptInFile
  <1>5. /\ latest # "" => proxy'.default = latest
        /\ \A form \in asked : proxy'.providers[form.provider] = Entry(Asked(form))
    BY <1>2, <1>3, <1>4, KeptIsServed
  <1>6. \A form \in asked : form \in Forms /\ Faithful(form)
    BY <1>3, <1>4 DEF Kept
  <1> QED BY <1>5, <1>6, FaithfulEntry

\* What was saved before a start, and reads as it is, is what it serves, whatever
\* blocks the file had and however often providers were saved, unless the same
\* doubt is there.
THEOREM SavedStaysServed == ServerSpec => SavedIsServed
  <1>1. ServerInit => TokensSafe /\ SettingsSafe /\ KeepsSaved
    BY InitTokens, InitSettings, InitKept
  <1>2. TokensSafe /\ SettingsSafe /\ KeepsSaved /\ [ServerNext]_serverVars =>
           TokensSafe' /\ SettingsSafe' /\ KeepsSaved'
    BY StepTokens, StepSettings, StepKept
  <1>3. SettingsSafe /\ KeepsSaved /\ [ServerNext]_serverVars =>
           [boot' = "up" /\ boot # "up" /\ ~doubt =>
              /\ latest # "" => proxy'.default = latest
              /\ \A form \in asked :
                    proxy'.providers[form.provider] =
                        [model |-> form.model,
                         url |-> IF form.url = "" THEN OpenAiUrl ELSE form.url,
                         key |-> IF form.provider \in DOMAIN EnvKeys
                                 THEN EnvKeys[form.provider] ELSE form.key]]_serverVars
    BY StartServes
  <1> QED BY <1>1, <1>2, <1>3, PTL DEF ServerSpec, SavedIsServed

=============================================================================
