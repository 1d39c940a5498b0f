# TLA+ models of the gateway-controllers policies

This directory holds TLA+ models of the mediation policies in `src/`, the TLC
configurations that check them, and `PROJECT.json`, which maps every model
definition to the source lines it translates.

## 1. Inventory

The repository is a set of independent gateway policies. The gateway SDK
(`github.com/wso2/api-platform/sdk`, not in this repository) creates one policy
instance per configuration with `GetPolicy`. It then calls `OnRequest` and
`OnResponse` for every exchange. Each call gets its own context, which holds
the exchange's `Metadata` map. Policies never call each other. The only
state that crosses from the request phase to the response phase is that
metadata.

| Component | Source | State | Operations |
|---|---|---|---|
| PII masking regex policy | `src/unnamed/part_000` | `params`: detector map name→regexp, `JsonPath`, `RedactPII` (immutable after `GetPolicy`); per exchange: `Metadata[piiMaskingRegex:pii_entities]` (literal→placeholder) | `GetPolicy`/`parseParams`, `OnRequest` (extract, clean, mask or redact, write back), `OnResponse` (restore) |
| Prompt decorator policy | `src/unnamed/part_001` | `params`: text or messages decoration, `JsonPath`, `Append` (immutable) | `GetPolicy`/`parseParams`, `OnRequest` (string or array decoration through `navigatePath`/`setValueAtPath`), `OnResponse` (no-op) |
| Remove headers policy | `src/policies/remove-headers/removeheaders.go` | none (a singleton with no fields) | `Validate`, `OnRequest`, `OnResponse` (both return header names to remove) |
| Prompt template policy | tests only, in `src/policies/mcp-auth/go.mod` | — | the implementation is not in the repository |
| Documentation | `src/unnamed/part_002`, `part_003`, `src/docs/...` | — | — |

### What is hard

All of the hard behaviour is in the PII masking policy. `spec.md` describes it
as the core of the repository.

* **Map iteration order.** `maskPIIFromContent` ranges over the Go map
  `piiEntities` (line 304). Go randomises the order of a map range. The order
  decides each placeholder's counter, and it decides the entity label of a
  literal that two detectors both find. `sort.Slice` (line 322) is unstable and
  gets its input from a map range, so literals of equal length are replaced in
  any order. `restorePIIInResponse` also ranges over a map (line 370). A unit
  test sees only one of these orders per run.
* **Substitution on an already rewritten string.** The second pass runs
  `strings.ReplaceAll` for each literal, longest first, on text that already
  holds the placeholders inserted before it (line 324). A shorter literal can
  occur inside one of those placeholders.
* **Re-entering content.** A literal is skipped only when a detector's match
  is placeholder-shaped as a whole (line 307). The counter restarts at 0 for
  every request.
* **Two phases, one mapping.** The mapping is written in the request phase
  (line 329) and read in the response phase (line 264). It is written before
  the write-back, which may fall back to the original payload (lines 397, 404).
* **Redaction in sequence.** Each detector runs on the output of the one before
  it (line 351).

Exchanges do run concurrently, but they share nothing mutable. The policy
params are written once, before `GetPolicy` returns. The per-exchange map and
counter are local to the call, and the metadata map belongs to the exchange's
context. So an interleaving of two exchanges behaves like running them one
after the other, and the model handles one exchange at a time.

### Properties per component

* PII masking: masking round-trips (spec §8); every detected literal gets
  exactly one placeholder, no two literals share one, and each placeholder
  names a detector that found its literal (spec §3 b, §8 uniqueness); no
  detected literal is forwarded upstream in either mode; `parseParams` accepts
  exactly the valid configurations (spec §4.1, scenarios 3 and 4). Spec §4.2,
  §4.5 and §8 also make claims about determinism, redaction of every match
  and substring safety. The code does not meet them; see the findings.
* Prompt decorator: an accepted configuration has exactly one style; the
  decoration lands at the target the extraction read; prepend/append order;
  negative indices resolve to the same element in `navigatePath` and
  `setValueAtPath`.
* Remove headers: a configuration that `Validate` accepts yields at runtime
  exactly the trimmed, lower-cased names it validated, for nested and legacy
  keys alike.

## 2. Plan

1. **`PIIMaskingRegex`** (done): the masking policy's full
   request/response cycle and its configuration. MC instances:
   `MC_PIIMaskingRegex` (general) and `MC_PIIDigits` (a detector whose
   literals occur in placeholders).
2. **An abstract exchange specification** (tried and dropped). Its only
   faithful instantiation reuses the model's own detection and field
   operators, so it restated `RoundTrip` and `NoLiteralForwarded`. A
   refinement is worth adding once there is a reference for detection that
   does not come from the code, for example a declarative regex semantics.
3. **`PromptDecorator`** (done): `parseParams`, `OnRequest` with string and array
   targets, and the path walk over a small JSON tree (records and sequences)
   with negative indices.
4. **`RemoveHeaders`** (done): `Validate` against `OnRequest`/`OnResponse` over
   nested, legacy and malformed parameter shapes.
5. Optionally, a composed pipeline of decorator, masking and header removal on
   one exchange. This only pays off if an ordering question between the
   policies shows up.

## 3. The PII masking model (`PIIMaskingRegex.tla`)

**Data abstraction.** Text is a sequence of one-character strings. A regular
expression is abstracted to an ordered alternation of literal words. For such
a pattern, Go's leftmost-first `FindAllString` is exactly `FindAll`: the
leftmost position, the first alternative that matches there, non-overlapping.
`ReplaceAllString` is `RegexReplaceAll`, and `strings.ReplaceAll` is
`StrReplaceAll`. `%04x` is computed by `Hex04`. The JSON-path utilities live
outside this repository. A body is therefore either the field text itself or
`Unextractable`, and the write-back (`updatePayloadWithMaskedContent`) yields
either the modified text or the original payload.

**State.** `params`/`policy` hold the result of `GetPolicy`. The rest belongs
to the current exchange:
* `phase`: idle → upstream → answered → done, or rejected
* `payload`
* `meta`: the metadata entry
* `sent`: the body forwarded upstream
* `outcome`: what `OnRequest` returned
* `resp`: the upstream reply
* `client`: the body after `OnResponse`

**Actions.**
* `GetPolicy(p)` runs `parseParams`. A rejected configuration can be replaced
  by another one; an accepted one serves every later exchange.
* `OnRequestExtractionError`, `OnRequestRedact(p)` and `OnRequestMask(p)` are
  the three paths through `OnRequest`, each including the write-back.
  Go's map orders are `\E keyOrder`/`\E order` over all permutations.
  `ReplaceOrders` allows every order `sort.Slice` may produce.
* `Upstream(r)` is the upstream service. It echoes what it got or says
  something else.
* `OnResponse` restores in an arbitrary map order.
* `EndExchange` discards the context, as the SDK does.

**Runs.**

| Run | Expect | What it shows |
|---|---|---|
| `pii_core` (`MC_PIIMaskingRegex.cfg`) | pass | `TypeOK`, `RoundTrip`, `MappingMatchesDetection`, `NoLiteralForwarded` and `ConfigMatchesReference` hold for all 688 configurations (up to two custom entities from {X, EMAIL, x} × {`ab\|b`, invalid}, three toggles, both modes) and six request bodies. |
| `decorator_core` (`MC_PromptDecorator.cfg`) | pass | `TypeOK` and `OnRequestMatchesReference`: the decoration lands exactly where the JSONPath read, and the request fails exactly when the target is missing or of the wrong type. |
| `remove_headers_core` (`MC_RemoveHeaders.cfg`) | pass | `TypeOK` and `ValidatedConfigRemovesItsHeaders` over every params shape. |
| `pii_deterministic` | violation | `a@b 55` gets `[EMAIL_0000] [PHONE_0001]` or `[EMAIL_0001] [PHONE_0000]`, depending on map order. |
| `pii_payload_round_trip` | violation | blanks around the field are lost on a masked round trip. |
| `pii_redaction_coverage` (`MC_PII_RedactionCoverage.cfg`) | violation | `RedactionCoversEveryMatch`: with the custom `ab\|b` ranged before email, `a@b 55` is sent as `a@***** 55`, so the fragment `a@` of the email leaks. |
| `pii_hex_width` (`MC_PIIHexWidth.cfg`) | violation | the 65537th distinct literal of a request gets `[X_10000]`, which `placeholderPattern` does not recognise. |
| `pii_digits_round_trip` (`MC_PIIDigits.cfg`) | violation | with a detector for `001`, `a@b 001` may be forwarded as `[EMAIL_0[D_0000]] [D_0000]` and answered with `[EMAIL_0001] 001`. |

**Bounds.** The request bodies cover:
* a literal inside another literal (`b` in `a@b`, and `ab`/`b`)
* a repeated literal
* quotes and blanks around the field
* a pre-existing placeholder
* the empty text
* a failed extraction

Up to two custom entities plus three built-ins give up to five detectors,
which is enough for duplicates and for every pair of detectors. Counters stay
below 10. In `MC_PIIMaskingRegex`, therefore, no literal shares a character
with a placeholder. This is deliberate: `MC_PIIDigits` is the instance where
one does, and there `RoundTrip` fails. The passing `RoundTrip` therefore
holds exactly for detector families whose literals cannot occur inside
`[NAME_dddd]`.

**Redaction coverage.** `RedactionCoversEveryMatch` compares the redacted
body with spec §4.5. Every match that each detector finds in the original
text is replaced, so once the `*****` tokens are removed, exactly the
unmatched characters must remain. `MatchedPositions` is the positional form
of `FindAll`.

**Placeholders at the counter boundary.** `PIIPlaceholders.tla` holds the
constant part that `PIIMaskingRegex` extends: the `%x`/`%04x` formatting, the
placeholder and `placeholderPattern`. `MC_PIIHexWidth` runs the allocation
loop of the first pass. It starts from the state a request reaches after
65535 distinct literals, because enumerating such a request is out of reach.

**Fairness.** None. Every property is a safety property (all are invariants). The policies never wait: each handler returns
after a bounded loop. Whether an exchange completes depends on the upstream
service and the gateway SDK, and neither is in this repository. A liveness
property would therefore rest on fairness the code does not provide.

**Not modelled.**
* The type errors of `parseBoolParam`, `jsonPath` and `redactPII`. Each is one
  early return with an error, the same as an invalid regex.
* The nil-body branches (lines 218, 274). Each is a pass-through with nothing
  to process.
* `Mode()`.
* The text of error messages.
* Whole requests with more than 65535 literals. Only the allocation loop at the boundary is checked (`MC_PIIHexWidth`).

## 4. The prompt decorator model (`PromptDecorator.tla`)

**Data abstraction.** A JSON value is a tagged record: `Str(text)`, `Arr(seq)`,
`Obj(function from keys)`, or a number. These are the cases of Go's type switch
on `interface{}`. A JSONPath is the sequence of its dot-separated components.
Each component is `[name, idx]`, where `idx` is the `[i]` suffix that
`arrayIndexRegex` parses, or `NoIndex`. The empty body and a body that is not
a JSON object are the model values `EmptyBody` and `Malformed`. A role is
stored as the word that `ToLower(TrimSpace(...))` yields.

**Operators and actions.**
* `parseParams` follows every early return of the Go function in order.
* `navigatePath` and `setValueAtPath` are translated case by case, including
  the negative index (`ResolveIndex`).
* `UpdateAtPath` is the shared body of `updateStringAtPath` and
  `updateArrayAtPath`: walk to the parent, then set the last component. Go
  mutates the maps it reached by reference. Here `PutChild` rebuilds the
  nodes along the path instead.
* `OnRequestResult` is `OnRequest`, with the error paths in the code's order:
  * empty body;
  * malformed body;
  * extraction failure;
  * a string target without text;
  * an array target without messages;
  * an array with a non-object element;
  * any other type.
* `utils.ExtractValueFromJsonpath` is in the SDK, outside this repository.
  `ExtractValueFromJsonpath` models it from JSONPath semantics and is marked
  spec-modelled.
* The actions are `GetPolicy(p)`, `OnRequest(p)` and `EndExchange`.
  `OnResponse` is a no-op and folds into `EndExchange`.

**Run `decorator_core`** (`MC_PromptDecorator.cfg`, 305 states).
* Decoration configurations:
  * valid text;
  * blank text;
  * valid messages;
  * neither style;
  * both styles;
  * an invalid role;
  * blank content.
* jsonPaths:
  * absent, blank or not a string, so the default is used;
  * `$.prompt`;
  * `$.messages[0].content`;
  * `$.messages[-2].content`, which is out of range on a one-message body;
  * `$.messages[-1]`.
* Bodies:
  * one or two messages;
  * an empty array;
  * a string prompt;
  * a message followed by a non-object element;
  * messages as a string;
  * empty;
  * malformed.

`OnRequestMatchesReference` compares the result with the JSONPath meaning of
writing the decorated value at the path (`SetAt`). It fails if `setValueAtPath`
stops resolving negative indices.

## 5. The remove-headers model (`RemoveHeaders.tla`)

The policy is a stateless singleton. `Validate` and the two phase handlers
parse the same params independently. The params are abstracted to their
shapes:
* each of `request`/`response`: absent, not an object, an object without
  `headers`, or `{headers: h}`;
* each of the legacy keys `requestHeaders`/`responseHeaders`: absent or `h`;
* `h`: not an array, or up to two entries;
* an entry: a name that needs trimming and lower-casing (`" A"`), a blank
  name, or no string name.

`MC_RemoveHeaders` enumerates all 65,025 such maps as initial states.
`ValidatedConfigRemovesItsHeaders` says that what `Validate` accepts, the
runtime honours exactly. `TypeOK` says no blank name is ever handed to the
gateway. The run reaches 195,075 states in a few seconds.

## 6. Not modelled

* **The prompt template policy.** Only its tests are in the repository.
* **A composed pipeline of the policies.** The policies share no state, and
  their order on a route is gateway configuration outside this repository.
  Each policy sees only the body the previous one produced, which is an input
  its own model already ranges over.
* **Liveness.** See the fairness paragraph above.

## 7. Findings

See `PROJECT.json` "findings". In short:
1. **Redaction leaves fragments.** A detector run earlier can break up
   another detector's match, and the rest of that match is forwarded
   (spec §4.5).
2. **Nondeterminism.** Placeholder numbering depends on Go map order, although
   spec §4.2/§9 demands a fixed order.
3. **Corrupted placeholders.** Longest-first replacement can still corrupt a
   placeholder when a shorter literal occurs inside it, and the round trip is
   then lost.
4. **Trimmed fields.** The field written back is trimmed of quotes and
   blanks.
5. **Five-digit placeholders.** Past counter `0xffff`, `%04x` prints five
   digits, against the spec's four-digit placeholder shape.
