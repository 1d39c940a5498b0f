-------------------------- MODULE MC_PIIHexWidth --------------------------
(***************************************************************************)
(* The placeholder counter of maskPIIFromContent at the width of %04x.    *)
(* The first pass gives each new distinct literal the placeholder for the *)
(* current counter and increments it.  Reaching the boundary takes 65535  *)
(* distinct literals in one request, far beyond an enumeration of texts,  *)
(* so the loop starts from the state it is in after MaxFourDigit literals *)
(* (a state every long enough request passes through) and allocates on.  *)
(***************************************************************************)
EXTENDS PIIPlaceholders

CONSTANTS
    Key,          \* the entity name the literals are found under
    MaxFourDigit, \* the last counter four hex digits hold (0xffff)
    Fresh         \* how many more distinct literals the request holds

VARIABLES
    counter,      \* the next placeholder number
    allocated     \* the placeholders handed out so far

MCKey == <<"X">>

hexVars == <<counter, allocated>>

HexInit ==
    /\ counter = MaxFourDigit
    /\ allocated = {}

\* visitMatch for a literal not yet in allMatches and not placeholder-shaped
AllocateFresh ==
    /\ counter < MaxFourDigit + Fresh
    /\ allocated' = allocated \cup {Placeholder(Key, counter)}
    /\ counter' = counter + 1

HexSpec == HexInit /\ [][AllocateFresh]_hexVars

(* Every placeholder maskPIIFromContent allocates has the shape the spec  *)
(* fixes and placeholderPattern recognises, [NAME_XXXX] with four hex     *)
(* digits, so masked text that re-enters the policy is skipped.           *)
PlaceholderShapeKept ==
    \A ph \in allocated : PlaceholderShaped(ph)
=============================================================================
