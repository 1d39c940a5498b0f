---------------------------- MODULE RemoveHeaders ----------------------------
(***************************************************************************)
(* The remove-headers policy (src/policies/remove-headers/removeheaders.go)*)
(* A singleton with no state: the gateway runs Validate on the params, and *)
(* OnRequest/OnResponse parse the same params again on every call and     *)
(* return the header names to remove.  Headers of a phase are read from   *)
(* the nested key (request.headers) or, if the phase key is absent, the    *)
(* legacy flat key (requestHeaders).                                      *)
(*                                                                         *)
(* A JSON value of the params is abstracted to its shapes: a phase value  *)
(* is Absent, NotObject, NoHeaders (an object without "headers") or        *)
(* [headers |-> h]; h is NotArray or a sequence of entries; an entry is   *)
(* NoName (not an object, no name or a name that is not a string) or      *)
(* [name |-> text], text a sequence of one-character strings.             *)
(***************************************************************************)
EXTENDS Integers, Sequences

CONSTANTS
    Params,      \* the params maps the gateway may hand to the policy
    Absent,      \* the key is not in the map
    NotObject,   \* request/response is not a JSON object
    NoHeaders,   \* request/response is an object without "headers"
    NotArray,    \* headers is not a JSON array
    NoName,      \* an entry that does not carry a string "name"
    None

VARIABLES
    params,      \* the params of the route
    validation,  \* what Validate returned: "ok" or "error"
    phase,       \* "configured", "request" (OnRequest returned), "done"
    reqRemoved,  \* RemoveHeaders of OnRequest's modifications
    respRemoved  \* RemoveHeaders of OnResponse's modifications

vars == <<params, validation, phase, reqRemoved, respRemoved>>

\* strings.TrimSpace and strings.ToLower on a sequence of characters
RECURSIVE TrimLeft(_)
TrimLeft(s) == IF s # <<>> /\ Head(s) = " " THEN TrimLeft(Tail(s)) ELSE s
RECURSIVE TrimRight(_)
TrimRight(s) == IF s # <<>> /\ s[Len(s)] = " " THEN TrimRight(SubSeq(s, 1, Len(s) - 1)) ELSE s
TrimSpace(s) == TrimRight(TrimLeft(s))
LowerOf == [c \in {"A", "B"} |-> IF c = "A" THEN "a" ELSE "b"]
ToLower(s) == [i \in DOMAIN s |-> IF s[i] \in DOMAIN LowerOf THEN LowerOf[s[i]] ELSE s[i]]

\* getPhaseHeaders: the nested key wins; a malformed one is an error
getPhaseHeaders(p, phaseKey, legacyKey) ==
    IF p[phaseKey] # Absent
    THEN IF p[phaseKey] \in {NotObject, NoHeaders}
         THEN [headers |-> None, has |-> FALSE, err |-> TRUE]
         ELSE [headers |-> p[phaseKey].headers, has |-> TRUE, err |-> FALSE]
    ELSE IF p[legacyKey] # Absent
         THEN [headers |-> p[legacyKey], has |-> TRUE, err |-> FALSE]
    ELSE [headers |-> None, has |-> FALSE, err |-> FALSE]

\* mutant: an empty list passes validation
validateHeaderNamesNoEmptyCheck(h) ==
    /\ h # NotArray
    /\ \A i \in DOMAIN h : h[i] # NoName /\ Len(TrimSpace(h[i].name)) # 0

\* validateHeaderNames: TRUE when it returns nil
validateHeaderNames(h) ==
    /\ h # NotArray
    /\ Len(h) # 0
    /\ \A i \in DOMAIN h : h[i] # NoName /\ Len(TrimSpace(h[i].name)) # 0

Validate(p) ==
    LET req == getPhaseHeaders(p, "request", "requestHeaders")
        resp == getPhaseHeaders(p, "response", "responseHeaders")
    IN IF \/ req.err \/ resp.err
          \/ ~req.has /\ ~resp.has
          \/ req.has /\ ~validateHeaderNames(req.headers)
          \/ resp.has /\ ~validateHeaderNames(resp.headers)
       THEN "error" ELSE "ok"

\* the normalized names of the entries that carry one, in order
Normalized(h) ==
    LET named == SelectSeq(h, LAMBDA e : e # NoName)
    IN [i \in DOMAIN named |-> ToLower(TrimSpace(named[i].name))]

\* mutant: blank names are kept
parseHeaderNamesKeepBlank(h) ==
    IF h = NotArray THEN <<>> ELSE Normalized(h)

\* parseHeaderNames: entries without a string name and blank names skipped
parseHeaderNames(h) ==
    IF h = NotArray THEN <<>> ELSE SelectSeq(Normalized(h), LAMBDA n : n # <<>>)

\* OnRequest and OnResponse: pass through (no names) on an error or absence
PhaseRemoved(p, phaseKey, legacyKey) ==
    LET ph == getPhaseHeaders(p, phaseKey, legacyKey)
    IN IF ph.err \/ ~ph.has THEN <<>> ELSE parseHeaderNames(ph.headers)

Init ==
    /\ params \in Params
    /\ validation = Validate(params)
    /\ phase = "configured"
    /\ reqRemoved = <<>>
    /\ respRemoved = <<>>

OnRequest ==
    /\ phase = "configured"
    /\ reqRemoved' = PhaseRemoved(params, "request", "requestHeaders")
    /\ phase' = "request"
    /\ UNCHANGED <<params, validation, respRemoved>>

OnResponse ==
    /\ phase = "request"
    /\ respRemoved' = PhaseRemoved(params, "response", "responseHeaders")
    /\ phase' = "done"
    /\ UNCHANGED <<params, validation, reqRemoved>>

\* the exchange ends; the policy serves the next one with the same params
EndExchange ==
    /\ phase = "done"
    /\ phase' = "configured"
    /\ reqRemoved' = <<>>
    /\ respRemoved' = <<>>
    /\ UNCHANGED <<params, validation>>

Next == OnRequest \/ OnResponse \/ EndExchange

Spec == Init /\ [][Next]_vars

-----------------------------------------------------------------------------

\* TypeOK: both phases return sequences of non-empty header names
\* (parseHeaderNames drops names that are blank after TrimSpace).
TypeOK ==
    /\ params \in Params
    /\ validation \in {"ok", "error"}
    /\ phase \in {"configured", "request", "done"}
    /\ \A i \in DOMAIN reqRemoved : reqRemoved[i] # <<>>
    /\ \A i \in DOMAIN respRemoved : respRemoved[i] # <<>>

\* the headers the params configure for a phase, by the nested-or-legacy rule
Configured(p, phaseKey, legacyKey) ==
    IF p[phaseKey] # Absent THEN p[phaseKey].headers ELSE p[legacyKey]

(* A configuration Validate accepts is one the runtime honours: once an   *)
(* exchange has passed OnRequest and OnResponse, each phase removed       *)
(* exactly the trimmed, lower-cased names the configuration lists for it, *)
(* in order, and at least one phase removed something.  This is about     *)
(* validateHeaderNames and parseHeaderNames, two separate readings of the *)
(* same params that must agree.                                           *)
ValidatedConfigRemovesItsHeaders ==
    (phase = "done" /\ validation = "ok") =>
        LET Has(k, l) == params[k] # Absent \/ params[l] # Absent
            Expect(k, l) ==
                IF Has(k, l) THEN Normalized(Configured(params, k, l)) ELSE <<>>
        IN /\ reqRemoved = Expect("request", "requestHeaders")
           /\ respRemoved = Expect("response", "responseHeaders")
           /\ reqRemoved # <<>> \/ respRemoved # <<>>
=============================================================================
