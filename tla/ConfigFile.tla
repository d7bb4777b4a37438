----------------------------- MODULE ConfigFile -----------------------------
(***************************************************************************)
(* config/default.toml as a value: what the start of the server writes to  *)
(* it and reads from it, and what saving the settings of a provider makes  *)
(* of it.  Sections other than [llm], [security] and [[providers]] are one *)
(* flag.  What is saved is put between quotes as it is, and read as TOML at *)
(* the next start: a quote or a backslash makes another text of it, or     *)
(* none, and then the whole file cannot be read.                           *)
(***************************************************************************)
EXTENDS Naturals, Sequences, FiniteSetsExt

CONSTANTS Providers,   \* names of providers
          Models, Urls, Keys,
          Reads,       \* what TOML reads for a text that stands between quotes
          OpenAiUrl,   \* what an empty base_url becomes
          EnvKeys,     \* PROVIDER_<NAME>_API_KEY: providers to keys, where it is set
          EnvProvider  \* the provider of the OPENAI_* variables, as a block

\* The value "" stands for a line that is there and empty, Missing for no line.
Missing == "(missing)"
NoSecret == 0
\* What a text reads as that leaves a quote open or has an unknown escape.
Broken == "(broken)"
\* The name line of a block that is spelled otherwise than the code looks for it.
Other == "(other)"

ASSUME ConfigAssumption ==
    /\ {"", OpenAiUrl} \subseteq Urls /\ "" \in Keys
    /\ {"", Missing, Broken, Other} \cap Providers = {}
    /\ Broken \notin Models \cup Urls \cup Keys
    /\ \A values \in {Providers \cup {""}, Models, Urls, Keys} :
          \A v \in values : Reads[v] \in values \cup {Broken}
    /\ Reads[""] = "" /\ Reads[OpenAiUrl] = OpenAiUrl
    /\ DOMAIN EnvKeys \subseteq Providers
    /\ \A p \in DOMAIN EnvKeys : EnvKeys[p] \in Keys

\* A [[providers]] block, with the values read.  line: what stands between the
\* quotes of its name line.
Block ==
    {b \in [name : Providers \cup {"", Broken}, line : Providers \cup {Other},
            model : Models \cup {Broken}, url : Urls \cup {Broken},
            key : Keys \cup {Broken}] :
        b.line # Other => b.name = Reads[b.line]}

\* whole: every section without a default is there.  llm: the default_provider
\* of [llm] as it reads, "" when that line is missing or empty, Missing without
\* [llm].
File == [whole : BOOLEAN, llm : Providers \cup {"", Missing, Broken},
         blocks : Seq(Block), secret : Nat]

\* A file just truncated; the default content lacks [features] and all that the
\* other fields stand for as well.
Bare == [whole |-> FALSE, llm |-> Missing, blocks |-> <<>>, secret |-> NoSecret]

\* ensure_default_config_exists: f is {} when there is no file.
Existing(f) == IF f = {} THEN Bare ELSE CHOOSE c \in f : TRUE

\* refresh_runtime_secret: the line is replaced, or added with its section.
WithSecret(c, s) == [c EXCEPT !.secret = s]

\* What a request to save says.
Form == [provider : Providers, model : Models, url : Urls, key : Keys]

\* What its lines read as; an empty token erases the key.
Asked(form) ==
    [name |-> Reads[form.provider], line |-> form.provider,
     model |-> Reads[form.model],
     url |-> Reads[IF form.url = "" THEN OpenAiUrl ELSE form.url],
     key |-> Reads[form.key]]

Values(b) == {b.name, b.model, b.url, b.key}
\* Nothing checks these of a request.
Readable(form) == Broken \notin Values(Asked(form))
Faithful(form) ==
    /\ Reads[form.provider] = form.provider /\ Reads[form.model] = form.model
    /\ Reads[form.url] = form.url /\ Reads[form.key] = form.key

\* Lines are compared, not what they read as.
Found(c, p) == {i \in DOMAIN c.blocks : c.blocks[i].line = p}

\* Mutant: a provider that is there is added again.
SavedTwice(c, form) ==
    [c EXCEPT !.llm = IF @ = Missing THEN @ ELSE Reads[form.provider],
              !.blocks = Append(@, Asked(form))]

\* save_agent_provider_options_handler, from the lines it read to those it
\* writes: without [llm] the default stays, without a block found one is added.
Saved(c, form) ==
    [c EXCEPT !.llm = IF @ = Missing THEN @ ELSE Reads[form.provider],
              !.blocks = IF Found(c, form.provider) = {} THEN Append(@, Asked(form))
                         ELSE [@ EXCEPT ![Min(Found(c, form.provider))] = Asked(form)]]

\* No section is missing without which the settings cannot be read, and there is
\* no value that cannot.
Loads(c) ==
    /\ c.whole /\ c.llm # Broken
    /\ \A i \in DOMAIN c.blocks : Broken \notin Values(c.blocks[i])

-----------------------------------------------------------------------------
\* What main makes of the settings for OpenAIProxyActor: the providers by name,
\* and the one that answers a call which names none (every call of the code).

NamesIn(c) == {c.blocks[i].name : i \in DOMAIN c.blocks}

\* Mutant: the name in [llm] is taken as it is.
DefaultUnchecked(c) == IF c.llm \in {"", Missing} THEN c.blocks[1].name ELSE c.llm

DefaultIn(c) ==
    LET wanted == IF c.llm \in {"", Missing} THEN c.blocks[1].name ELSE c.llm
    IN  IF wanted \in NamesIn(c) THEN wanted ELSE c.blocks[1].name

\* Of two blocks of the default provider the first counts, of two others the last.
Chosen(c, p) ==
    LET at == {i \in DOMAIN c.blocks : c.blocks[i].name = p}
    IN  c.blocks[IF p = DefaultIn(c) THEN Min(at) ELSE Max(at)]

Entry(b) ==
    [model |-> b.model, url |-> b.url,
     key |-> IF b.name \in DOMAIN EnvKeys THEN EnvKeys[b.name] ELSE b.key]

Proxy(c) ==
    IF c.blocks = <<>>
    THEN [default |-> EnvProvider.name,
          providers |-> [p \in {EnvProvider.name} |->
                            [model |-> EnvProvider.model, url |-> EnvProvider.url,
                             key |-> EnvProvider.key]]]
    ELSE [default |-> DefaultIn(c),
          providers |-> [p \in NamesIn(c) |-> Entry(Chosen(c, p))]]

\* A save reaches the provider it names: there is at most one block of it, and
\* its name is spelled as the code looks for it.
Reachable(c, p) ==
    \A i, j \in DOMAIN c.blocks :
        c.blocks[i].name = Reads[p] /\ c.blocks[j].name = Reads[p]
            => i = j /\ c.blocks[i].line = p

=============================================================================
