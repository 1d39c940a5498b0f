------------------------- MODULE MC_PromptDecorator -------------------------
(* A model of PromptDecorator: seven decoration configurations (valid and  *)
(* invalid), jsonPaths with positive, negative and out-of-range indices,   *)
(* and request bodies whose target is a string, an array of messages, an  *)
(* empty array, an array with a non-object element, or missing.           *)
EXTENDS PromptDecorator

\* roles as written in the configuration, with the word ToLower/TrimSpace give
User == [word |-> "user", raw |-> " User"]
Bot == [word |-> "bot", raw |-> "bot"]
D == <<"d">>

MCConfigs == {
    [text |-> D, messages |-> <<>>],
    [text |-> <<" ">>, messages |-> <<>>],
    [text |-> None, messages |-> <<[role |-> User, content |-> D]>>],
    [text |-> None, messages |-> <<>>],
    [text |-> D, messages |-> <<[role |-> User, content |-> D]>>],
    [text |-> None, messages |-> <<[role |-> Bot, content |-> D]>>],
    [text |-> None, messages |-> <<[role |-> User, content |-> <<" ">>]>>]}

\* $.prompt, $.messages[0].content, $.messages[-2].content, $.messages[-1]
MCJsonPaths == {
    None, Blank, NotAString,
    << [name |-> "prompt", idx |-> NoIndex] >>,
    << [name |-> "messages", idx |-> 0], [name |-> "content", idx |-> NoIndex] >>,
    << [name |-> "messages", idx |-> -2], [name |-> "content", idx |-> NoIndex] >>,
    << [name |-> "messages", idx |-> -1] >>}

Msg(c) == Obj([role |-> Str(<<"u">>), content |-> Str(c)])

MCPayloads == {
    Obj([messages |-> Arr(<< Msg(<<"h">>) >>)]),
    Obj([messages |-> Arr(<< Msg(<<"h">>), Msg(<<"i">>) >>), model |-> [t |-> "num", v |-> 1]]),
    Obj([messages |-> Arr(<<>>)]),
    Obj([prompt |-> Str(<<"h">>)]),
    Obj([messages |-> Arr(<< Msg(<<"h">>), Str(<<"i">>) >>)]),
    Obj([messages |-> Str(<<"h">>)]),
    EmptyBody, Malformed}
=============================================================================
