----------------------------- MODULE ServerLife -----------------------------
(***************************************************************************)
(* The life of the server process as its file of settings sees it: the     *)
(* start, which renews the secret in the file and reads the settings, the  *)
(* requests that save the settings of a provider, and, by way of Sessions, *)
(* those that log in and refresh.  The workers of the HTTP server run a    *)
(* save to its end without an await, but side by side.                     *)
(***************************************************************************)
EXTENDS Sessions, ConfigFile

CONSTANTS Saves,        \* saves at work at a time (bound)
          Forms,        \* what they may ask for
          InitialFiles  \* contents of the file before the first start; {} for none

ASSUME ServerAssumption ==
    /\ Forms \subseteq Form
    /\ \A f \in InitialFiles : \A c \in f : f = {c} /\ c \in File /\ Loads(c)

VARIABLES file,    \* {} or {its content}
          boot,    \* the step of Settings::new, then up, failed or off
          content, \* what was read and is being written
          secret,  \* CONFIG.security.super_secret_key
          proxy,   \* the providers of OpenAIProxyActor
          save,
          asked,   \* history: for every provider what the latest save asked for, if
                   \* all of it reads as it is
          latest,  \* history: what the provider of the latest save reads as, "" if the
                   \* file names no default
          doubt    \* history: a file had to be created, a write was cut or failed,
                   \* saves overlapped, or one put down what cannot be read

configVars == <<file, boot, content, secret, proxy, save, asked, latest, doubt>>
serverVars == <<sessionVars, configVars>>

NoSave == [pc |-> "free"]
NoProxy == [default |-> "", providers |-> <<>>]

ServerInit ==
    /\ SessionsInit
    /\ file \in InitialFiles
    /\ boot = "off" /\ content = Bare /\ secret = NoSecret /\ proxy = NoProxy
    /\ save = [w \in Saves |-> NoSave]
    /\ asked = {} /\ latest = "" /\ doubt = FALSE

Content == CHOOSE c \in file : TRUE

-----------------------------------------------------------------------------
\* Settings::new, forced by main before anything is served.

\* The file is created if there is none, read, and opened to be written again.
BeginStart ==
    /\ boot \in {"off", "failed"} /\ run < MaxRuns
    /\ run' = run + 1
    /\ doubt' = (doubt \/ file = {})
    /\ content' = WithSecret(Existing(file), run')
    /\ file' = {Bare} /\ boot' = "writing"
    /\ UNCHANGED <<clock, serving, redis, held, request, used, histories>>
    /\ UNCHANGED <<secret, proxy, save, asked, latest>>

WriteSecret ==
    /\ boot = "writing"
    /\ file' = {content} /\ boot' = "reading"
    /\ UNCHANGED <<content, secret, proxy, save, asked, latest, doubt>>
    /\ UNCHANGED sessionVars

\* The settings are read back; without them the process ends.
LoadSettings ==
    /\ boot = "reading"
    /\ content' = Bare
    /\ IF Loads(Content)
       THEN /\ boot' = "up" /\ secret' = Content.secret /\ proxy' = Proxy(Content)
            /\ Serve
       ELSE /\ boot' = "failed" /\ UNCHANGED <<secret, proxy>> /\ UNCHANGED sessionVars
    /\ UNCHANGED <<file, save, asked, latest, doubt>>

-----------------------------------------------------------------------------
\* save_agent_provider_options_handler.

Saving == {w \in Saves : save[w].pc # "free"}

ReadFile(w, form) ==
    /\ boot = "up" /\ save[w].pc = "free"
    /\ Begin
    /\ save' = [save EXCEPT ![w] = [pc |-> "read", form |-> form, read |-> Content]]
    /\ doubt' = (doubt \/ Saving # {})
    /\ UNCHANGED <<clock, run, serving, redis, held, request, histories>>
    /\ UNCHANGED <<file, boot, content, secret, proxy, asked, latest>>

\* fs::write, the opening: the file is empty.
Truncate(w) ==
    /\ save[w].pc = "read"
    /\ save' = [save EXCEPT ![w].pc = "truncated"]
    /\ file' = {Bare}
    /\ UNCHANGED <<boot, content, secret, proxy, asked, latest, doubt>>
    /\ UNCHANGED sessionVars

\* Mutant: only the asked block is written, what was read is not.
WriteFileAnew(w) ==
    /\ save[w].pc = "truncated"
    /\ file' = {Saved(Bare, save[w].form)}
    /\ save' = [save EXCEPT ![w] = NoSave]
    /\ UNCHANGED <<boot, content, secret, proxy, asked, latest, doubt>>
    /\ UNCHANGED sessionVars

\* fs::write, the writing, and the answer.  Over what another save has written
\* a shorter text leaves the end of the longer one.
WriteFile(w) ==
    LET form == save[w].form
        new == Saved(save[w].read, form)
    IN  /\ save[w].pc = "truncated"
        /\ file' \in {{new}} \cup (IF Content = Bare THEN {} ELSE {{Bare}})
        /\ save' = [save EXCEPT ![w] = NoSave]
        /\ asked' = {f \in asked : f.provider \notin {form.provider, Reads[form.provider]}}
                     \cup {f \in {form} : /\ Faithful(form)
                                          /\ Reachable(save[w].read, form.provider)}
        /\ latest' = IF save[w].read.llm = Missing THEN "" ELSE Reads[form.provider]
        /\ doubt' = (doubt \/ ~Readable(form))
        /\ UNCHANGED <<boot, content, secret, proxy>>
        /\ UNCHANGED sessionVars

\* The disk is full or the file cannot be opened: 500.
SaveFails(w) ==
    /\ save[w].pc \in {"read", "truncated"}
    /\ Fault
    /\ doubt' = (doubt \/ save[w].pc = "truncated")
    /\ save' = [save EXCEPT ![w] = NoSave]
    /\ UNCHANGED <<clock, run, serving, redis, held, request, histories>>
    /\ UNCHANGED <<file, boot, content, secret, proxy, asked, latest>>

-----------------------------------------------------------------------------
\* The process is stopped, or dies: what is half written stays so.
Crash ==
    /\ boot \in {"writing", "reading", "up"}
    /\ \/ boot = "up" /\ Saving = {} /\ used' = used
       \/ (boot # "up" \/ Saving # {}) /\ Fault
    /\ Stop
    /\ boot' = "off" /\ content' = Bare /\ secret' = NoSecret /\ proxy' = NoProxy
    /\ save' = [w \in Saves |-> NoSave]
    /\ doubt' = (doubt \/ boot = "writing" \/ \E w \in Saves : save[w].pc = "truncated")
    /\ UNCHANGED <<file, asked, latest>>

ServerNext ==
    \/ SessionStep /\ UNCHANGED configVars
    \/ BeginStart \/ WriteSecret \/ LoadSettings \/ Crash
    \/ \E w \in Saves :
          (\E form \in Forms : ReadFile(w, form)) \/ Truncate(w) \/ WriteFile(w) \/ SaveFails(w)

ServerSpec == ServerInit /\ [][ServerNext]_serverVars

-----------------------------------------------------------------------------
\* Types, and: while the server serves its default provider is one of those it
\* knows, so that no call ends for want of a provider.
ServerTypeOK ==
    /\ redis \subseteq Token /\ \A c \in Clients : held[c] \in Token \cup {NoToken}
    /\ serving <=> boot = "up"
    /\ Saving # {} => boot = "up"
    /\ boot = "up" => proxy.default \in DOMAIN proxy.providers
    /\ \A c \in file : file = {c} /\ c \in File
    /\ asked \subseteq Forms

\* The server starts again after any saves, with the sections no save is about,
\* and the file shows the secret of the running server, which people read there
\* to open the console: unless a write was cut short, saves overlapped, or one
\* saved a text that TOML cannot read between quotes, which nothing refuses
\* (agsnets/handler.rs:164, 195): then the next start fails.
FileStaysWhole ==
    ~doubt => /\ boot # "failed"
              /\ boot = "up" /\ Saving = {} => Loads(Content) /\ Content.secret = secret

\* A server that starts serves what was saved: the latest of all as the default,
\* as far as its name can be read, and every provider with the model, the address
\* and the key of its latest save, if all of them read as they are; of texts that
\* read as others nothing is promised but that they spoil no other provider.
SavedIsServed ==
    [][boot' = "up" /\ boot # "up" /\ ~doubt =>
         /\ latest # "" => proxy'.default = latest
         /\ \A form \in asked :
               proxy'.providers[form.provider] =
                   [model |-> form.model,
                    url |-> IF form.url = "" THEN OpenAiUrl ELSE form.url,
                    key |-> IF form.provider \in DOMAIN EnvKeys
                            THEN EnvKeys[form.provider] ELSE form.key]]_serverVars

=============================================================================
