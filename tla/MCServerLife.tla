---------------------------- MODULE MCServerLife ----------------------------
(* Two clients of one user, two providers, and four files to begin with.    *)
(* Saved are also a name that ends in a quote and a comment, which reads as *)
(* the name before it, and a model with a quote in it, which does not read. *)
EXTENDS ServerLife, TLC

MCOwner == [c \in Clients |-> "ann"]

Odd == "qwen\" #"
Quoted == "m\"1"
MCProviders == {"kimi", "qwen", Odd}
MCModels == {"m0", "m1", Quoted}
MCReads == [v \in MCProviders \cup MCModels \cup Urls \cup Keys |->
              IF v = Odd THEN "qwen" ELSE IF v = Quoted THEN Broken ELSE v]

B(name, line, key) ==
    [name |-> name, line |-> line, model |-> "m0", url |-> "u0", key |-> key]
F(llm, blocks) == [whole |-> TRUE, llm |-> llm, blocks |-> blocks, secret |-> 0]

MCEnvKeys == [p \in {"kimi"} |-> "env"]
MCEnvProvider == B("kimi", "kimi", "env")

\* No file; no provider; a name spelled otherwise, and a default that is not
\* there; no [llm].
MCInitialFiles == {
    {},
    {F("", <<>>)},
    {F("qwen", <<B("kimi", Other, "k0")>>)},
    {F(Missing, <<B("qwen", "qwen", "k0")>>)}}

Save(provider, model, url, key) ==
    [provider |-> provider, model |-> model, url |-> url, key |-> key]
MCForms == {
    Save("kimi", "m1", "u0", "k1"), Save("qwen", "m1", "", ""),
    Save(Odd, "m0", "u0", "k1"), Save("kimi", Quoted, "u0", "k1")}

MCSymmetry == Permutations(Clients) \cup Permutations(Requests) \cup Permutations(Saves)
=============================================================================
