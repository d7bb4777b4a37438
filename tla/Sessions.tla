------------------------------ MODULE Sessions ------------------------------
(***************************************************************************)
(* Refresh tokens: POST /auth/login and /auth/refresh, RedisActor with its *)
(* one or two commands per message, and the clients that keep what they    *)
(* are given.  A token is its claims and the secret it is signed with:     *)
(* there is no random part, and iat is in whole seconds.                   *)
(***************************************************************************)
EXTENDS Naturals

CONSTANTS Users, Clients, NoToken, Free,
          Owner,      \* the user a client belongs to
          Requests,   \* requests at work at a time (bound)
          Life,       \* seven days, in seconds of the model
          MaxClock, MaxRequests, MaxFaults, MaxRuns \* bounds

\* The value of a key is the user the token names.
Token == [user : Users, iat : Nat, run : Nat]

ASSUME SessionsAssumption ==
    /\ NoToken \notin Token
    /\ Free \notin [pc : {"looking", "found", "minting", "storing"}, client : Clients,
                    old : Token \cup {NoToken}, new : Token \cup {NoToken}]
    /\ Owner \in [Clients -> Users]
    /\ {Life, MaxClock, MaxRequests, MaxFaults, MaxRuns} \subseteq Nat
    /\ Life > 0

VARIABLES clock,    \* Local::now().timestamp()
          run,      \* which run of the server this is: each has a secret of its own
          serving,  \* the server answers requests
          redis,    \* the keys rt:<token>
          held,     \* the refresh token of the latest answer to a client
          request,
          used,     \* how many requests and faults there were
          spent,    \* history: tokens that were exchanged and not issued again
          overlapped, \* history: tokens found by a request while another that had
                      \* found them too was still to delete them
          spoiled   \* history: tokens that no promise is made about

histories == <<spent, overlapped, spoiled>>
sessionVars == <<clock, run, serving, redis, held, request, used, histories>>

Request(pc, c, old, new) == [pc |-> pc, client |-> c, old |-> old, new |-> new]

SessionsInit ==
    /\ clock = 0 /\ run = 0 /\ serving = FALSE
    /\ redis = {}
    /\ held = [c \in Clients |-> NoToken]
    /\ request = [r \in Requests |-> Free]
    /\ used = [requests |-> 0, faults |-> 0]
    /\ spent = {} /\ overlapped = {} /\ spoiled = {}

\* generate_tokens and validate_token (its 60 s of grace change nothing here:
\* Redis has dropped the token by then).
Minted(user) == [user |-> user, iat |-> clock, run |-> run]
Valid(t) == t.run = run /\ clock <= t.iat + Life

Fault == used.faults < MaxFaults /\ used' = [used EXCEPT !.faults = @ + 1]
Begin == used.requests < MaxRequests /\ used' = [used EXCEPT !.requests = @ + 1]
At(r, pc) == request[r] # Free /\ request[r].pc = pc
Becomes(r, q) == request' = [request EXCEPT ![r] = q]

\* Another request is about this token.
InUse(r, t) == \E q \in Requests \ {r} : request[q] # Free /\ request[q].old = t

\* Another request has found this token and not deleted it yet.
FoundByOther(r, t) == \E q \in Requests \ {r} : At(q, "found") /\ request[q].old = t

-----------------------------------------------------------------------------
\* The password was right: the tokens are made before anything is stored.
Login(r, c) ==
    /\ serving /\ request[r] = Free
    /\ Begin
    /\ Becomes(r, Request("storing", c, NoToken, Minted(Owner[c])))
    /\ UNCHANGED <<clock, run, serving, redis, held, histories>>

\* A client sends the token it holds, perhaps more than once; one that is not
\* valid is refused at once.
Refresh(r, c) ==
    /\ serving /\ request[r] = Free /\ held[c] # NoToken
    /\ Valid(held[c])
    /\ Begin
    /\ Becomes(r, Request("looking", c, held[c], NoToken))
    /\ UNCHANGED <<clock, run, serving, redis, held, histories>>

\* VerifyAndConsumeToken, GET.
Look(r) ==
    /\ At(r, "looking")
    /\ Becomes(r, IF request[r].old \in redis THEN [request[r] EXCEPT !.pc = "found"] ELSE Free)
    /\ overlapped' = overlapped \cup {t \in redis : t = request[r].old /\ FoundByOther(r, t)}
    /\ UNCHANGED <<clock, run, serving, redis, held, used, spent, spoiled>>

\* Mutant: the token is read and left.
ConsumeNothing(r) ==
    /\ At(r, "found")
    /\ Becomes(r, [request[r] EXCEPT !.pc = "minting"])
    /\ spent' = spent \cup {request[r].old}
    /\ UNCHANGED <<clock, run, serving, redis, held, used, overlapped, spoiled>>

\* Mutant: the new token is stored before the old one is deleted.
StoreFirst(r) ==
    /\ At(r, "found")
    /\ LET t == request[r].old
           new == Minted(t.user)
       IN  /\ redis' = (redis \cup {new}) \ {t}
           /\ spent' = (spent \cup {t}) \ {new}
           /\ held' = [held EXCEPT ![request[r].client] = new]
    /\ Becomes(r, Free)
    /\ UNCHANGED <<clock, run, serving, used, overlapped, spoiled>>

\* VerifyAndConsumeToken, DEL: whatever is there by now.
Consume(r) ==
    /\ At(r, "found")
    /\ Becomes(r, [request[r] EXCEPT !.pc = "minting"])
    /\ redis' = redis \ {request[r].old}
    /\ spent' = spent \cup {request[r].old}
    /\ UNCHANGED <<clock, run, serving, held, used, overlapped, spoiled>>

\* Redis does not answer the GET or the DEL: 500, and the token may be gone.
ConsumeFails(r) ==
    /\ At(r, "looking") \/ At(r, "found")
    /\ Fault
    /\ redis' \in {redis} \cup (IF At(r, "found") THEN {redis \ {request[r].old}} ELSE {})
    /\ spoiled' = spoiled \cup {request[r].old}
    /\ Becomes(r, Free)
    /\ UNCHANGED <<clock, run, serving, held, spent, overlapped>>

\* refresh goes on: the new tokens, at the time it is now.
Mint(r) ==
    /\ At(r, "minting")
    /\ Becomes(r, [request[r] EXCEPT !.pc = "storing", !.new = Minted(request[r].old.user)])
    /\ UNCHANGED <<clock, run, serving, redis, held, used, histories>>

\* SaveRefreshToken, SETEX, and the answer.
Store(r) ==
    LET t == request[r].new
    IN  /\ At(r, "storing")
        /\ redis' = redis \cup {t}
        /\ held' = [held EXCEPT ![request[r].client] = t]
        /\ spent' = spent \ {t}
        /\ spoiled' = IF t \in redis \/ InUse(r, t) THEN spoiled \cup {t} ELSE spoiled
        /\ Becomes(r, Free)
        /\ UNCHANGED <<clock, run, serving, used, overlapped>>

\* Redis does not answer the SETEX: login reports it, refresh answers all the same.
StoreFails(r) ==
    LET t == request[r].new
    IN  /\ At(r, "storing")
        /\ Fault
        /\ redis' \in {redis, redis \cup {t}}
        /\ spent' = spent \ redis'
        /\ held' = IF request[r].old = NoToken THEN held
                   ELSE [held EXCEPT ![request[r].client] = t]
        /\ spoiled' = spoiled \cup {t}
        /\ Becomes(r, Free)
        /\ UNCHANGED <<clock, run, serving, overlapped>>

\* A second goes by.
Tick ==
    /\ clock < MaxClock
    /\ clock' = clock + 1
    /\ UNCHANGED <<run, serving, redis, held, request, used, histories>>

\* The time to live of a key is over.
Expire ==
    /\ \E t \in redis : t.iat + Life <= clock /\ redis' = redis \ {t}
    /\ UNCHANGED <<clock, run, serving, held, request, used, histories>>

\* The process ends with what it was doing.
Stop ==
    /\ serving' = FALSE
    /\ request' = [r \in Requests |-> Free]
    /\ UNCHANGED <<clock, run, redis, held, histories>>

\* It has a new secret and serves.
Serve ==
    /\ serving' = TRUE
    /\ UNCHANGED <<clock, run, redis, held, request, used, histories>>

SessionStep ==
    \/ Tick \/ Expire
    \/ \E r \in Requests :
          \/ \E c \in Clients : Login(r, c) \/ Refresh(r, c)
          \/ Look(r) \/ Consume(r) \/ ConsumeFails(r) \/ Mint(r) \/ Store(r) \/ StoreFails(r)

-----------------------------------------------------------------------------
Exchanged(r) == At(r, "found") /\ At(r, "minting")'

\* A refresh token is exchanged for new ones at most once, whatever else is under
\* way, until the same token is issued again: unless two requests had found it
\* before either deleted it (VerifyAndConsumeToken reads and deletes in two
\* commands, redis_actor.rs:83-88).
UsedOnce ==
    [][\A r \in Requests :
          Exchanged(r) => request[r].old \notin spent \ overlapped]_sessionVars

\* What the code says of it, without the exception: "deleted at once, so that the
\* token can be used only once" (redis_actor.rs:85), "one-time consumption"
\* (docs/auth_api_standard.md:20).  Two requests with one token refute it.
OnlyOnce ==
    [][\A r \in Requests : Exchanged(r) => request[r].old \notin spent]_sessionVars

\* A client that holds the token of its latest answer can refresh with it, until
\* it expires or the server restarts: unless Redis failed on that token, or the
\* token was issued while it was stored or in use.
LatestIsHonoured ==
    \A c \in Clients :
        LET t == held[c]
        IN  /\ serving /\ t # NoToken /\ t \notin spoiled
            /\ t.run = run /\ clock < t.iat + Life
            /\ \A r \in Requests : request[r] # Free => request[r].old # t
            => t \in redis

=============================================================================
