-------------------------- MODULE PIIMaskingRegex --------------------------
(***************************************************************************)
(* The pii-masking-regex policy (src/unnamed/part_000, package            *)
(* piimaskingregex): GetPolicy/parseParams builds the detector map once,  *)
(* OnRequest masks or redacts the extracted text, the upstream answers,   *)
(* OnResponse restores placeholders from the exchange metadata.           *)
(*                                                                         *)
(* Text is a sequence of one-character strings.  A detector's regular    *)
(* expression is abstracted to an ordered alternation of literal words,  *)
(* which Go's leftmost-first regexp matches exactly as FindAll below.    *)
(* Go map iteration order is unspecified and randomised, so every loop   *)
(* over a map is an \E over the orders of its keys.                       *)
(***************************************************************************)
EXTENDS Integers, SequencesExt, Functions, PIIPlaceholders

CONSTANTS
    CustomPool,     \* customPIIEntities items: [piiEntity: Text, piiRegex: Pattern or InvalidRegex]
    MaxCustoms,     \* longest customPIIEntities list a configuration may hold
    EmailRegex,     \* abstraction of DefaultEmailRegex: the words it may match
    PhoneRegex,     \* abstraction of DefaultPhoneRegex
    SSNRegex,       \* abstraction of DefaultSSNRegex
    Payloads,       \* request bodies (the text at JsonPath), or Unextractable
    Responses,      \* upstream answers other than echoing what it was sent
    InvalidRegex,   \* a piiRegex that does not compile
    Unextractable,  \* a body from which ExtractStringValueFromJsonpath fails
    ConfigError,    \* GetPolicy returned an error
    None            \* absence of a value (no metadata entry, no policy, ...)

VARIABLES
    params,   \* the parameters GetPolicy was last called with
    policy,   \* p.params: [entities: name -> pattern, redact: BOOLEAN], ConfigError or None
    phase,    \* where the current exchange is
    payload,  \* the request body of the current exchange
    meta,     \* ctx.Metadata[MetadataKeyPIIEntities]: literal -> placeholder, or None
    sent,     \* the body forwarded upstream
    outcome,  \* what OnRequest returned
    resp,     \* the upstream response body
    client    \* the response body after OnResponse

vars == <<params, policy, phase, payload, meta, sent, outcome, resp, client>>

-----------------------------------------------------------------------------
(* Characters and the code's string constants.                            *)

DefaultEmailEntityName == <<"E","M","A","I","L">>
DefaultPhoneEntityName == <<"P","H","O","N","E">>
DefaultSSNEntityName   == <<"S","S","N">>
Stars == <<"*","*","*","*","*">>

-----------------------------------------------------------------------------
(* Helpers the code takes from the Go standard library.                   *)

\* s occurs in t (strings.Contains)
IsSubstringOf(s, t) ==
    \E i \in 0..(Len(t) - Len(s)) : SubSeq(t, i + 1, i + Len(s)) = s

\* regexp FindAllString(s, -1) for an alternation of non-empty words:
\* leftmost match, first alternative that matches there, non-overlapping.
RECURSIVE FindAll(_, _)
FindAll(s, pat) ==
    IF s = <<>> THEN <<>>
    ELSE LET hits == {i \in DOMAIN pat : IsPrefix(pat[i], s)}
         IN IF hits = {} THEN FindAll(Tail(s), pat)
            ELSE LET w == pat[Min(hits)]
                 IN <<w>> \o FindAll(SubSeq(s, Len(w) + 1, Len(s)), pat)

\* regexp ReplaceAllString(s, r) for the same patterns
RECURSIVE RegexReplaceAll(_, _, _)
RegexReplaceAll(s, pat, r) ==
    IF s = <<>> THEN <<>>
    ELSE LET hits == {i \in DOMAIN pat : IsPrefix(pat[i], s)}
         IN IF hits = {} THEN <<Head(s)>> \o RegexReplaceAll(Tail(s), pat, r)
            ELSE LET w == pat[Min(hits)]
                 IN r \o RegexReplaceAll(SubSeq(s, Len(w) + 1, Len(s)), pat, r)

\* strings.ReplaceAll(s, old, new), old non-empty
RECURSIVE StrReplaceAll(_, _, _)
StrReplaceAll(s, old, new) ==
    IF Len(s) < Len(old) THEN s
    ELSE IF SubSeq(s, 1, Len(old)) = old
         THEN new \o StrReplaceAll(SubSeq(s, Len(old) + 1, Len(s)), old, new)
         ELSE <<Head(s)>> \o StrReplaceAll(Tail(s), old, new)

\* textCleanRegex ^"|"$ removed, then strings.TrimSpace
TrimSpace(s) ==
    LET inner == {i \in DOMAIN s : s[i] # " "}
    IN IF inner = {} THEN <<>> ELSE SubSeq(s, Min(inner), Max(inner))
Clean(s) ==
    LET a == IF s # <<>> /\ Head(s) = "\"" THEN Tail(s) ELSE s
        b == IF a # <<>> /\ Last(a) = "\"" THEN Front(a) ELSE a
    IN TrimSpace(b)

-----------------------------------------------------------------------------
(* parseParams: customs first, then the email, phone, ssn toggles.        *)

\* ^[A-Z_]+$
NameValid(n) == n # <<>> /\ \A i \in DOMAIN n : n[i] \in UpperChars

\* mutant: the ^[A-Z_]+$ check on piiEntity dropped
AddCustomNoNameCheck(acc, item) ==
    IF acc = ConfigError THEN ConfigError
    ELSE IF item.piiRegex = InvalidRegex THEN ConfigError
    ELSE IF item.piiEntity \in DOMAIN acc THEN ConfigError
    ELSE (item.piiEntity :> item.piiRegex) @@ acc

\* one customPIIEntities item added to the map being built
AddCustom(acc, item) ==
    IF acc = ConfigError THEN ConfigError
    ELSE IF ~NameValid(item.piiEntity) \/ item.piiRegex = InvalidRegex THEN ConfigError
    ELSE IF item.piiEntity \in DOMAIN acc THEN ConfigError
    ELSE (item.piiEntity :> item.piiRegex) @@ acc

\* mutant: a built-in overwrites a custom entity of the same name
AddBuiltinNoDuplicateCheck(acc, enabled, name, regex) ==
    IF acc = ConfigError \/ ~enabled THEN acc
    ELSE (name :> regex) @@ acc

\* a built-in toggle: duplicate name check, then the fixed pattern
AddBuiltin(acc, enabled, name, regex) ==
    IF acc = ConfigError \/ ~enabled THEN acc
    ELSE IF name \in DOMAIN acc THEN ConfigError
    ELSE (name :> regex) @@ acc

parseParams(p) ==
    LET customs == FoldLeft(AddCustom, <<>>, p.customPIIEntities)
        e1 == AddBuiltin(customs, p.email, DefaultEmailEntityName, EmailRegex)
        e2 == AddBuiltin(e1, p.phone, DefaultPhoneEntityName, PhoneRegex)
        e3 == AddBuiltin(e2, p.ssn, DefaultSSNEntityName, SSNRegex)
    IN IF e3 = ConfigError \/ DOMAIN e3 = {} THEN ConfigError
       ELSE [entities |-> e3, redact |-> p.redactPII]

\* the params a route may carry: customPIIEntities as an array of objects
\* (the JSON-string form and the shape errors are not enumerated)
ParamChoices ==
    [customPIIEntities : BoundedSeq(CustomPool, MaxCustoms),
     email : BOOLEAN, phone : BOOLEAN, ssn : BOOLEAN, redactPII : BOOLEAN]

-----------------------------------------------------------------------------
(* maskPIIFromContent, redactPIIFromContent, restorePIIInResponse.  Each  *)
(* takes the order in which Go happened to range over its map.            *)

\* mutant: the counter is not incremented
AllocateMatchesNoIncrement(content, entities, keyOrder) ==
    LET visitKey(acc, key) ==
          LET visitMatch(a, match) ==
                IF match \in DOMAIN a.all \/ PlaceholderShaped(match) THEN a
                ELSE [all |-> (match :> Placeholder(key, a.counter)) @@ a.all,
                      counter |-> a.counter]
          IN FoldLeft(visitMatch, acc, FindAll(content, entities[key]))
    IN FoldLeft(visitKey, [all |-> <<>>, counter |-> 0], keyOrder).all

\* first pass: allMatches (original -> placeholder) and the counter,
\* ranging over piiEntities in the order keyOrder
AllocateMatches(content, entities, keyOrder) ==
    LET visitKey(acc, key) ==
          LET visitMatch(a, match) ==
                IF match \in DOMAIN a.all \/ PlaceholderShaped(match) THEN a
                ELSE [all |-> (match :> Placeholder(key, a.counter)) @@ a.all,
                      counter |-> a.counter + 1]
          IN FoldLeft(visitMatch, acc, FindAll(content, entities[key]))
    IN FoldLeft(visitKey, [all |-> <<>>, counter |-> 0], keyOrder).all

\* the orders sort.Slice may leave originals in: longest first, ties in
\* any order (the input comes from a map range and the sort is unstable)
ReplaceOrders(originals) ==
    {o \in SetToSeqs(originals) :
        \A i, j \in DOMAIN o : i < j => Len(o[i]) >= Len(o[j])}

\* strings.Replace(s, old, new, 1)
StrReplaceFirst(s, old, new) ==
    LET at == {i \in 0..(Len(s) - Len(old)) : SubSeq(s, i + 1, i + Len(old)) = old}
    IN IF at = {} THEN s
       ELSE SubSeq(s, 1, Min(at)) \o new \o SubSeq(s, Min(at) + Len(old) + 1, Len(s))

\* mutant: only the first occurrence of each original is replaced
SubstituteMatchesFirstOnly(content, all, order) ==
    FoldLeft(LAMBDA c, original : StrReplaceFirst(c, original, all[original]),
             content, order)

\* second pass: strings.ReplaceAll for each original in order
SubstituteMatches(content, all, order) ==
    FoldLeft(LAMBDA c, original : StrReplaceAll(c, original, all[original]),
             content, order)

\* redaction: every pattern that matches replaces its matches with *****
redactPIIFromContent(content, entities, keyOrder) ==
    LET step(acc, key) ==
          IF FindAll(acc.c, entities[key]) # <<>>
          THEN [c |-> RegexReplaceAll(acc.c, entities[key], Stars), found |-> TRUE]
          ELSE acc
        r == FoldLeft(step, [c |-> content, found |-> FALSE], keyOrder)
    IN IF content = <<>> \/ ~r.found THEN <<>> ELSE r.c

\* mutant: only the first occurrence of each placeholder is restored
restorePIIInResponseFirstOnly(content, masked, order) ==
    FoldLeft(LAMBDA c, original :
                IF IsSubstringOf(masked[original], c)
                THEN StrReplaceFirst(c, masked[original], original) ELSE c,
             content, order)

\* restoration: each placeholder present is replaced by its original
restorePIIInResponse(content, masked, order) ==
    FoldLeft(LAMBDA c, original :
                IF IsSubstringOf(masked[original], c)
                THEN StrReplaceAll(c, masked[original], original) ELSE c,
             content, order)

-----------------------------------------------------------------------------
(* The exchange.  phase: "idle" (no exchange in flight), "upstream"       *)
(* (request forwarded), "answered" (upstream replied), "done" (OnResponse  *)
(* ran), "rejected" (OnRequest returned an ImmediateResponse).            *)

Outcomes == {"unchanged", "transformed", "fallback", "failure"}

Init ==
    /\ params = None
    /\ policy = None
    /\ phase = "idle"
    /\ payload = None
    /\ meta = None
    /\ sent = None
    /\ outcome = None
    /\ resp = None
    /\ client = None

\* GetPolicy: parseParams once; a rejected configuration is replaced by a
\* new one, an accepted one serves every later exchange unchanged
GetPolicy(p) ==
    /\ policy \in {None, ConfigError}
    /\ params' = p
    /\ policy' = parseParams(p)
    /\ UNCHANGED <<phase, payload, meta, sent, outcome, resp, client>>

\* the text OnRequest works on
ExtractedValue(p) == Clean(p)

\* updatePayloadWithMaskedContent: with no JSONPath, or a body that is not
\* a JSON object, the modified text itself; when SetValueAtJSONPath or
\* json.Marshal fails, the original payload; otherwise the payload with
\* the field replaced, which is the modified text at this abstraction
updatePayloadWithMaskedContent(p, modified) == {modified, p}

\* the end of OnRequest: write back only a non-empty, changed text
Forward(p, modified) ==
    IF modified # <<>> /\ modified # ExtractedValue(p)
    THEN \E body \in updatePayloadWithMaskedContent(p, modified) :
            /\ sent' = body
            /\ outcome' = IF body = modified THEN "transformed" ELSE "fallback"
    ELSE sent' = p /\ outcome' = "unchanged"

\* OnRequest with a body from which the JSONPath cannot be extracted
OnRequestExtractionError ==
    /\ phase = "idle"
    /\ policy \notin {None, ConfigError}
    /\ Unextractable \in Payloads
    /\ payload' = Unextractable
    /\ phase' = "rejected"
    /\ outcome' = "failure"
    /\ UNCHANGED <<params, policy, meta, sent, resp, client>>

\* OnRequest in redaction mode
OnRequestRedact(p) ==
    /\ phase = "idle"
    /\ policy \notin {None, ConfigError}
    /\ policy.redact
    /\ payload' = p
    /\ phase' = "upstream"
    /\ \E keyOrder \in SetToSeqs(DOMAIN policy.entities) :
          Forward(p, redactPIIFromContent(ExtractedValue(p), policy.entities, keyOrder))
    /\ UNCHANGED <<params, policy, meta, resp, client>>

\* OnRequest in masking mode: maskPIIFromContent stores the mapping in the
\* metadata before OnRequest decides whether to write the payload back
OnRequestMask(p) ==
    /\ phase = "idle"
    /\ policy \notin {None, ConfigError}
    /\ ~policy.redact
    /\ payload' = p
    /\ phase' = "upstream"
    /\ LET content == ExtractedValue(p) IN
       \E keyOrder \in SetToSeqs(DOMAIN policy.entities) :
          LET all == IF content = <<>> THEN <<>>
                     ELSE AllocateMatches(content, policy.entities, keyOrder)
          IN \E order \in ReplaceOrders(DOMAIN all) :
               /\ meta' = IF DOMAIN all # {} THEN all ELSE meta
               /\ Forward(p, IF DOMAIN all # {}
                             THEN SubstituteMatches(content, all, order)
                             ELSE <<>>)
    /\ UNCHANGED <<params, policy, resp, client>>

\* the upstream service answers: it echoes what it was sent, or says
\* something else (dropping or altering placeholders)
Upstream(r) ==
    /\ phase = "upstream"
    /\ resp' = r
    /\ phase' = "answered"
    /\ UNCHANGED <<params, policy, payload, meta, sent, outcome, client>>

\* OnResponse: restoration only in masking mode and only with a mapping
OnResponse ==
    /\ phase = "answered"
    /\ phase' = "done"
    /\ IF policy.redact \/ meta = None
       THEN client' = resp
       ELSE \E order \in SetToSeqs(DOMAIN meta) :
               client' = restorePIIInResponse(resp, meta, order)
    /\ UNCHANGED <<params, policy, payload, meta, sent, outcome, resp>>

\* the exchange ends; the next one gets a fresh context and metadata
EndExchange ==
    /\ phase \in {"done", "rejected"}
    /\ phase' = "idle"
    /\ payload' = None /\ meta' = None /\ sent' = None
    /\ outcome' = None /\ resp' = None /\ client' = None
    /\ UNCHANGED <<params, policy>>

TextPayloads == Payloads \ {Unextractable}

Next ==
    \/ \E p \in ParamChoices : GetPolicy(p)
    \/ OnRequestExtractionError
    \/ \E p \in TextPayloads : OnRequestRedact(p) \/ OnRequestMask(p)
    \/ \E r \in {sent} \cup Responses : Upstream(r)
    \/ OnResponse
    \/ EndExchange

Spec == Init /\ [][Next]_vars

-----------------------------------------------------------------------------
(* Properties.                                                            *)

Text == Seq(STRING)

TypeOK ==
    /\ params \in ParamChoices \cup {None}
    /\ \/ policy \in {None, ConfigError}
       \/ /\ DOMAIN policy = {"entities", "redact"}
          /\ policy.redact \in BOOLEAN
          /\ \A k \in DOMAIN policy.entities : NameValid(k) /\ policy.entities[k] \in Seq(Text)
    /\ phase \in {"idle", "upstream", "answered", "done", "rejected"}
    /\ payload \in Payloads \cup {None}
    /\ meta = None \/ (DOMAIN meta \subseteq Text /\ \A l \in DOMAIN meta : meta[l] \in Text)
    /\ sent \in Text \cup {None}
    /\ outcome \in Outcomes \cup {None}
    /\ resp \in Text \cup {None}
    /\ client \in Text \cup {None}

\* the text the current exchange's OnRequest worked on
ReqText == ExtractedValue(payload)

Processed == phase \in {"upstream", "answered", "done"}

Masking == policy \notin {None, ConfigError} /\ ~policy.redact

\* every literal some detector finds in content; masking skips the ones
\* that already look like placeholders
DetectedBy(pol, content) ==
    LET found == UNION {Range(FindAll(content, pol.entities[k])) :
                          k \in DOMAIN pol.entities}
    IN IF ~pol.redact THEN {l \in found : ~PlaceholderShaped(l)} ELSE found
Detected(content) == DetectedBy(policy, content)

(* Round trip (spec 8): when masking forwarded the masked text and the    *)
(* upstream echoes it, OnResponse hands back exactly the text OnRequest   *)
(* extracted, provided that text held nothing shaped like a placeholder. *)
(* Depends on maskPIIFromContent's longest-first ReplaceAll order and on  *)
(* restorePIIInResponse's map-ordered restoration.                        *)
RoundTrip ==
    (/\ phase = "done" /\ Masking /\ outcome = "transformed" /\ resp = sent
     /\ ~\E i, j \in 1..Len(ReqText) : PlaceholderShaped(SubSeq(ReqText, i, j)))
    => client = ReqText

(* Round trip of the request field: the client gets back the very field *)
(* it sent.  OnRequest writes back the text after textCleanRegex and      *)
(* TrimSpace, so surrounding quotes and blanks of the field are lost.     *)
PayloadRoundTrip ==
    (/\ phase = "done" /\ Masking /\ outcome = "transformed" /\ resp = sent
     /\ ~\E i, j \in 1..Len(ReqText) : PlaceholderShaped(SubSeq(ReqText, i, j)))
    => client = payload

(* The metadata OnRequest leaves (spec 3, invariant b; spec 8,            *)
(* uniqueness): one placeholder per detected literal, no two literals     *)
(* sharing one, counters 0..n-1, and each placeholder naming an entity   *)
(* whose detector really found that literal.  Depends on the first pass  *)
(* of maskPIIFromContent (the exists check, the counter, the key used).  *)
MappingMatchesDetection ==
    (Processed /\ Masking /\ meta # None) =>
        /\ DOMAIN meta = Detected(ReqText)
        /\ IsInjective(meta)
        /\ \A l \in DOMAIN meta :
              \E k \in DOMAIN policy.entities, n \in 0..(Cardinality(DOMAIN meta) - 1) :
                 /\ meta[l] = Placeholder(k, n)
                 /\ l \in Range(FindAll(ReqText, policy.entities[k]))

(* No detected literal reaches the upstream service once OnRequest has   *)
(* rewritten the body, in either mode: redaction's pattern-by-pattern     *)
(* ReplaceAllString and masking's longest-first ReplaceAll must leave no *)
(* occurrence behind.                                                    *)
NoLiteralForwarded ==
    (Processed /\ outcome = "transformed") =>
        \A l \in Detected(ReqText) : ~IsSubstringOf(l, sent)

(* Configuration (spec 4.1, scenarios 3 and 4): GetPolicy accepts exactly *)
(* the parameters whose names are valid, whose regexes compile, that name *)
(* no entity twice across customs and enabled built-ins and name at least *)
(* one; an accepted policy maps each name to its own pattern.  Depends on *)
(* parseParams checking customs first and built-ins against them.        *)
ConfiguredNames(p) ==
    [i \in DOMAIN p.customPIIEntities |-> p.customPIIEntities[i].piiEntity]
    \o (IF p.email THEN <<DefaultEmailEntityName>> ELSE <<>>)
    \o (IF p.phone THEN <<DefaultPhoneEntityName>> ELSE <<>>)
    \o (IF p.ssn THEN <<DefaultSSNEntityName>> ELSE <<>>)

ValidParams(p) ==
    /\ \A i \in DOMAIN p.customPIIEntities :
          NameValid(p.customPIIEntities[i].piiEntity)
          /\ p.customPIIEntities[i].piiRegex # InvalidRegex
    /\ IsInjective(ConfiguredNames(p))
    /\ ConfiguredNames(p) # <<>>

PatternOf(p, name) ==
    CASE name = DefaultEmailEntityName /\ p.email -> EmailRegex
      [] name = DefaultPhoneEntityName /\ p.phone -> PhoneRegex
      [] name = DefaultSSNEntityName /\ p.ssn -> SSNRegex
      [] OTHER -> (CHOOSE c \in Range(p.customPIIEntities) : c.piiEntity = name).piiRegex

ConfigMatchesReference ==
    policy # None =>
        /\ policy = ConfigError <=> ~ValidParams(params)
        /\ policy # ConfigError =>
              /\ DOMAIN policy.entities = Range(ConfiguredNames(params))
              /\ \A k \in DOMAIN policy.entities : policy.entities[k] = PatternOf(params, k)
              /\ policy.redact = params.redactPII

(* Deterministic masking (spec 4.2, 4.3 and 9): the same text under the  *)
(* same detectors is always masked the same way, whichever order Go      *)
(* ranges over piiEntities and sort.Slice leaves equal-length literals.  *)
MaskResults(content) ==
    UNION { { <<AllocateMatches(content, policy.entities, keyOrder),
                SubstituteMatches(content,
                    AllocateMatches(content, policy.entities, keyOrder), order)>> :
              order \in ReplaceOrders(DOMAIN AllocateMatches(content, policy.entities, keyOrder)) } :
            keyOrder \in SetToSeqs(DOMAIN policy.entities) }

DeterministicMasking ==
    (Processed /\ Masking) => Cardinality(MaskResults(ReqText)) = 1

-----------------------------------------------------------------------------
(* Redaction against the spec's definition of it (4.5): every match of   *)
(* every detector's pattern in the content is replaced by the token.      *)

\* the positions of s, numbered from off + 1, that FindAll's matches cover
RECURSIVE MatchedPositions(_, _, _)
MatchedPositions(s, pat, off) ==
    IF s = <<>> THEN {}
    ELSE LET hits == {i \in DOMAIN pat : IsPrefix(pat[i], s)}
         IN IF hits = {} THEN MatchedPositions(Tail(s), pat, off + 1)
            ELSE LET n == Len(pat[Min(hits)])
                 IN ((off + 1)..(off + n))
                      \cup MatchedPositions(SubSeq(s, n + 1, Len(s)), pat, off + n)

\* the characters of content that no detector's match covers, in order
Uncovered(content) ==
    LET covered == UNION {MatchedPositions(content, policy.entities[k], 0) :
                            k \in DOMAIN policy.entities}
        kept == SelectSeq([i \in 1..Len(content) |-> i], LAMBDA i : i \notin covered)
    IN [j \in DOMAIN kept |-> content[kept[j]]]

(* Redaction hides every match (spec 4.5): once OnRequest has written a   *)
(* redacted body, the characters left besides the ***** tokens are        *)
(* exactly those of the text that no detector matches in it.  The code    *)
(* runs each detector on the output of the one before it, in map order,   *)
(* so a detector that runs first can break up another's match and leave  *)
(* a fragment of it (a@ of a@b) in the body sent upstream.                *)
RedactionCoversEveryMatch ==
    (Processed /\ policy.redact /\ outcome = "transformed") =>
        SelectSeq(sent, LAMBDA c : c # "*") = Uncovered(ReqText)

=============================================================================
