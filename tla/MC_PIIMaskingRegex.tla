------------------------ MODULE MC_PIIMaskingRegex ------------------------
(***************************************************************************)
(* A small instance: the three built-in detectors, one custom name that  *)
(* is valid (X), one that collides with a built-in (EMAIL) and one that  *)
(* is invalid (x), and request texts that exercise a literal contained in *)
(* another, repeated literals, quoting and blanks, a pre-existing        *)
(* placeholder and the empty text.  No literal shares a character with   *)
(* the placeholders the counter reaches here (see MC_PIIDigits for one   *)
(* that does).                                                           *)
(***************************************************************************)
EXTENDS PIIMaskingRegex

X == <<"X">>
LowerX == <<"x">>

MCEmailRegex == << <<"a","@","b">> >>
MCPhoneRegex == << <<"5","5">> >>
MCSSNRegex == << <<"9","9","9">> >>
\* custom regex ab|b: prefers the longer word, also finds a lone b
MCCustomRegex == << <<"a","b">>, <<"b">> >>

MCCustomPool ==
    [piiEntity : {X, DefaultEmailEntityName, LowerX},
     piiRegex : {MCCustomRegex, InvalidRegex}]

MCPayloads ==
    { <<"a","@","b"," ","5","5">>,                      \* a@b 55
      <<"a","b"," ","b"," ","9","9","9">>,              \* ab b 999
      <<" ","\"","a","@","b"," ","a","@","b","\""," ">>, \*  "a@b a@b"
      <<"[","X","_","0","0","0","0","]"," ","b">>,      \* [X_0000] b
      <<>>,
      Unextractable }

MCResponses == { <<"o","k">> }
=============================================================================
