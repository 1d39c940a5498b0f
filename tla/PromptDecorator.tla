--------------------------- MODULE PromptDecorator ---------------------------
(***************************************************************************)
(* The prompt-decorator policy (src/unnamed/part_001, package             *)
(* promptdecorator): parseParams picks exactly one decoration style and a *)
(* JSONPath, OnRequest decorates the string or the message array the path *)
(* selects and writes it back by walking the path itself.                 *)
(*                                                                         *)
(* A JSON value is a tagged record, as Go's interface{} type switch sees  *)
(* it: Str(text), Arr(sequence), Obj(function from keys), Num.  Text is a *)
(* sequence of one-character strings.  A JSONPath "$.a.b[i].c" is the     *)
(* sequence of its dot-separated components, each [name, idx] with idx    *)
(* NoIndex when the component has no [i] suffix (arrayIndexRegex).        *)
(***************************************************************************)
EXTENDS Integers, SequencesExt

CONSTANTS
    Configs,       \* promptDecoratorConfig values: [text: Text or None, messages: Seq(Decoration)]
    JsonPaths,     \* jsonPath parameter: a path, Blank, NotAString or None (absent)
    Payloads,      \* request bodies: JSON objects, EmptyBody or Malformed
    NoIndex,       \* a path component without an [i] suffix
    Blank,         \* a jsonPath that is "" or only whitespace
    NotAString,    \* a jsonPath of another JSON type
    EmptyBody,     \* ctx.Body nil or empty
    Malformed,     \* a body that is not a JSON object
    ConfigError,   \* GetPolicy returned an error
    ErrorResponse, \* OnRequest returned buildErrorResponse (an ImmediateResponse)
    Nil,           \* Go nil: navigatePath found nothing
    None           \* absence of a value

VARIABLES
    params,   \* the parameters GetPolicy was last called with
    policy,   \* p.params: [config, jsonPath, append], ConfigError or None
    phase,    \* "idle" or "done" (OnRequest returned)
    payload,  \* the request body of the current exchange
    result    \* what OnRequest returned: the new body or ErrorResponse

vars == <<params, policy, phase, payload, result>>

Str(s) == [t |-> "str", v |-> s]
Arr(s) == [t |-> "arr", v |-> s]
Obj(f) == [t |-> "obj", v |-> f]

\* defaultTextDecorationJSONPath "$.messages[-1].content" and
\* defaultMessagesDecorationJSONPath "$.messages"
DefaultTextPath == << [name |-> "messages", idx |-> -1], [name |-> "content", idx |-> NoIndex] >>
DefaultMessagesPath == << [name |-> "messages", idx |-> NoIndex] >>

\* validDecoratorRoles
ValidRoles == {"system", "user", "assistant", "tool"}

\* strings.TrimSpace(s) == ""
IsBlank(s) == \A i \in DOMAIN s : s[i] = " "

-----------------------------------------------------------------------------
(* parseParams.  A role is [word, upper, padded]: strings.ToLower and      *)
(* strings.TrimSpace turn it into its word.                                *)

NormalizeRole(r) == r.word

\* mutant: the role is not checked against validDecoratorRoles
DecorationValidNoRoleCheck(d) ==
    /\ NormalizeRole(d.role) # ""
    /\ ~IsBlank(d.content)

DecorationValid(d) ==
    /\ NormalizeRole(d.role) # ""
    /\ NormalizeRole(d.role) \in ValidRoles
    /\ ~IsBlank(d.content)

parseParams(p) ==
    LET cfg == p.promptDecoratorConfig
        textConfigured == cfg # Malformed /\ cfg.text # None
        messagesConfigured == cfg # Malformed /\ Len(cfg.messages) > 0
        jsonPath == IF p.jsonPath \in {None, Blank} THEN None ELSE p.jsonPath
    IN IF \/ cfg = Malformed
          \/ textConfigured = messagesConfigured
          \/ textConfigured /\ IsBlank(cfg.text)
          \/ messagesConfigured /\ \E i \in DOMAIN cfg.messages : ~DecorationValid(cfg.messages[i])
          \/ p.jsonPath = NotAString
       THEN ConfigError
       ELSE [text |-> cfg.text,
             messages |-> [i \in DOMAIN cfg.messages |->
                             [role |-> NormalizeRole(cfg.messages[i].role),
                              content |-> cfg.messages[i].content]],
             jsonPath |-> IF jsonPath # None THEN jsonPath
                          ELSE IF textConfigured THEN DefaultTextPath
                          ELSE DefaultMessagesPath,
             append |-> p.append]

ParamChoices ==
    [promptDecoratorConfig : Configs \cup {Malformed},
     jsonPath : JsonPaths, append : BOOLEAN]

-----------------------------------------------------------------------------
(* Walking a path (navigatePath, setValueAtPath, updateStringAtPath and    *)
(* updateArrayAtPath).  Go mutates the maps and slices it reached by      *)
(* reference; here the node is rebuilt along the path instead.            *)

\* a negative index counts from the end
ResolveIndex(arr, idx) == IF idx < 0 THEN Len(arr) + idx ELSE idx

\* navigatePath: the child a component selects, or Nil
navigatePath(current, comp) ==
    IF current.t # "obj" \/ comp.name \notin DOMAIN current.v THEN Nil
    ELSE IF comp.idx = NoIndex THEN current.v[comp.name]
    ELSE LET arrVal == current.v[comp.name]
             i == IF arrVal.t = "arr" THEN ResolveIndex(arrVal.v, comp.idx) ELSE -1
         IN IF arrVal.t # "arr" \/ i < 0 \/ i >= Len(arrVal.v) THEN Nil
            ELSE arrVal.v[i + 1]

\* mutant: a negative index is used without counting from the end
setValueAtPathNoNegative(current, comp, value) ==
    IF current.t # "obj" THEN ErrorResponse
    ELSE IF comp.idx = NoIndex
         THEN Obj((comp.name :> value) @@ current.v)
    ELSE IF comp.name \notin DOMAIN current.v \/ current.v[comp.name].t # "arr" THEN ErrorResponse
    ELSE LET arr == current.v[comp.name].v
         IN IF comp.idx < 0 \/ comp.idx >= Len(arr) THEN ErrorResponse
            ELSE Obj([current.v EXCEPT ![comp.name] =
                        Arr([arr EXCEPT ![comp.idx + 1] = value])])

\* setValueAtPath: the node with the component set to value, or ErrorResponse
setValueAtPath(current, comp, value) ==
    IF current.t # "obj" THEN ErrorResponse
    ELSE IF comp.idx = NoIndex
         THEN Obj((comp.name :> value) @@ current.v)
    ELSE IF comp.name \notin DOMAIN current.v \/ current.v[comp.name].t # "arr" THEN ErrorResponse
    ELSE LET arr == current.v[comp.name].v
             i == ResolveIndex(arr, comp.idx)
         IN IF i < 0 \/ i >= Len(arr) THEN ErrorResponse
            ELSE Obj([current.v EXCEPT ![comp.name] = Arr([arr EXCEPT ![i + 1] = value])])

\* the node with the child a component selects replaced by child
PutChild(current, comp, child) ==
    IF comp.idx = NoIndex THEN Obj([current.v EXCEPT ![comp.name] = child])
    ELSE LET arr == current.v[comp.name].v
         IN Obj([current.v EXCEPT ![comp.name] =
                   Arr([arr EXCEPT ![ResolveIndex(arr, comp.idx) + 1] = child])])

\* navigate to the parent of the last component, then set the last one
RECURSIVE UpdateAtPath(_, _, _)
UpdateAtPath(node, path, value) ==
    IF path = <<>> THEN ErrorResponse
    ELSE IF Len(path) = 1 THEN setValueAtPath(node, Head(path), value)
    ELSE LET child == navigatePath(node, Head(path))
         IN IF child = Nil THEN ErrorResponse
            ELSE LET updated == UpdateAtPath(child, Tail(path), value)
                 IN IF updated = ErrorResponse THEN ErrorResponse
                    ELSE PutChild(node, Head(path), updated)

-----------------------------------------------------------------------------
(* utils.ExtractValueFromJsonpath lives in the gateway SDK, outside this  *)
(* repository: JSONPath semantics for dotted keys and [i] indices, a      *)
(* negative index counting from the end.                                  *)
RECURSIVE ExtractValueFromJsonpath(_, _)
ExtractValueFromJsonpath(node, path) ==
    IF path = <<>> THEN node
    ELSE LET c == Head(path)
         IN IF node.t # "obj" \/ c.name \notin DOMAIN node.v THEN Nil
            ELSE IF c.idx = NoIndex THEN ExtractValueFromJsonpath(node.v[c.name], Tail(path))
            ELSE LET a == node.v[c.name]
                     k == IF c.idx < 0 THEN Len(a.v) + c.idx + 1 ELSE c.idx + 1
                 IN IF a.t # "arr" \/ k < 1 \/ k > Len(a.v) THEN Nil
                    ELSE ExtractValueFromJsonpath(a.v[k], Tail(path))

\* createDecorationMessages: one {"role", "content"} object per decoration
createDecorationMessages(pol) ==
    [i \in DOMAIN pol.messages |->
        Obj([role |-> Str(<<pol.messages[i].role>>), content |-> Str(pol.messages[i].content)])]

\* the string case: decoration and text joined by one blank
DecorateText(pol, v) ==
    IF pol.append THEN v \o <<" ">> \o pol.text ELSE pol.text \o <<" ">> \o v

\* the array case: decoration messages before or after the messages
DecorateMessages(pol, msgs) ==
    IF pol.append THEN msgs \o createDecorationMessages(pol)
    ELSE createDecorationMessages(pol) \o msgs

\* OnRequest: the body it forwards, or ErrorResponse
OnRequestResult(pol, p) ==
    IF p \in {EmptyBody, Malformed} THEN ErrorResponse
    ELSE LET x == ExtractValueFromJsonpath(p, pol.jsonPath)
         IN IF x = Nil THEN ErrorResponse
            ELSE IF x.t = "str"
                 THEN IF pol.text = None THEN ErrorResponse
                      ELSE UpdateAtPath(p, pol.jsonPath, Str(DecorateText(pol, x.v)))
            ELSE IF x.t = "arr"
                 THEN IF Len(pol.messages) = 0 \/ \E i \in DOMAIN x.v : x.v[i].t # "obj"
                      THEN ErrorResponse
                      ELSE UpdateAtPath(p, pol.jsonPath, Arr(DecorateMessages(pol, x.v)))
            ELSE ErrorResponse

-----------------------------------------------------------------------------

Init ==
    /\ params = None
    /\ policy = None
    /\ phase = "idle"
    /\ payload = None
    /\ result = None

\* GetPolicy: parseParams once; a rejected configuration is replaced
GetPolicy(p) ==
    /\ policy \in {None, ConfigError}
    /\ params' = p
    /\ policy' = parseParams(p)
    /\ UNCHANGED <<phase, payload, result>>

OnRequest(p) ==
    /\ phase = "idle"
    /\ policy \notin {None, ConfigError}
    /\ payload' = p
    /\ result' = OnRequestResult(policy, p)
    /\ phase' = "done"
    /\ UNCHANGED <<params, policy>>

\* the exchange ends (OnResponse does nothing); the next one starts
EndExchange ==
    /\ phase = "done"
    /\ phase' = "idle"
    /\ payload' = None
    /\ result' = None
    /\ UNCHANGED <<params, policy>>

Next ==
    \/ \E p \in ParamChoices : GetPolicy(p)
    \/ \E p \in Payloads : OnRequest(p)
    \/ EndExchange

Spec == Init /\ [][Next]_vars

-----------------------------------------------------------------------------
(* Properties.                                                            *)

TypeOK ==
    /\ params \in ParamChoices \cup {None}
    /\ \/ policy \in {None, ConfigError}
       \/ /\ DOMAIN policy = {"text", "messages", "jsonPath", "append"}
          /\ \A i \in DOMAIN policy.messages : policy.messages[i].role \in ValidRoles
          /\ (policy.text = None) # (policy.messages = <<>>)
    /\ phase \in {"idle", "done"}
    /\ payload \in Payloads \cup {None}
    /\ result = None \/ result = ErrorResponse \/ (result.t = "obj")

\* the value at path replaced by v: the JSONPath meaning of a write
RECURSIVE SetAt(_, _, _)
SetAt(node, path, v) ==
    IF path = <<>> THEN v
    ELSE LET c == Head(path)
         IN IF c.idx = NoIndex
            THEN Obj([node.v EXCEPT ![c.name] = SetAt(node.v[c.name], Tail(path), v)])
            ELSE LET a == node.v[c.name].v
                     k == IF c.idx < 0 THEN Len(a) + c.idx + 1 ELSE c.idx + 1
                 IN Obj([node.v EXCEPT ![c.name] = Arr([a EXCEPT ![k] = SetAt(a[k], Tail(path), v)])])

(* OnRequest writes the decoration exactly where the JSONPath read from   *)
(* (the last message's content by default), leaves every other part of  *)
(* the body as it was, and fails exactly when the target is missing, of  *)
(* the wrong type for the configured style, or an array with a non-object *)
(* element.  Depends on updateStringAtPath/updateArrayAtPath walking to   *)
(* the parent with navigatePath and resolving negative indices in        *)
(* navigatePath and setValueAtPath the way the extraction did.           *)
OnRequestMatchesReference ==
    phase = "done" =>
        LET x == IF payload \in {EmptyBody, Malformed} THEN Nil
                 ELSE ExtractValueFromJsonpath(payload, policy.jsonPath)
            decorated ==
                CASE x # Nil /\ x.t = "str" /\ policy.text # None ->
                        Str(DecorateText(policy, x.v))
                  [] x # Nil /\ x.t = "arr" /\ policy.messages # <<>>
                        /\ \A i \in DOMAIN x.v : x.v[i].t = "obj" ->
                        Arr(DecorateMessages(policy, x.v))
                  [] OTHER -> Nil
        IN result = IF decorated = Nil THEN ErrorResponse
                    ELSE SetAt(payload, policy.jsonPath, decorated)

=============================================================================
