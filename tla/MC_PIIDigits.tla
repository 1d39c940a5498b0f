--------------------------- MODULE MC_PIIDigits ---------------------------
(***************************************************************************)
(* One custom detector for a three-digit code (a CVV-like \d{3}, here the *)
(* code 001) beside the built-in email detector.  The placeholders of     *)
(* this request carry hex counters 0000 and 0001, so the shorter literal *)
(* 001 occurs inside a placeholder inserted before it is replaced.       *)
(***************************************************************************)
EXTENDS PIIMaskingRegex

D == <<"D">>

MCEmailRegex == << <<"a","@","b">> >>
MCPhoneRegex == << <<"5","5">> >>
MCSSNRegex == << <<"9","9","9">> >>
MCCodeRegex == << <<"0","0","1">> >>

MCCustomPool == { [piiEntity |-> D, piiRegex |-> MCCodeRegex] }

MCPayloads == { <<"a","@","b"," ","0","0","1">> }   \* a@b 001

MCResponses == {}
=============================================================================
