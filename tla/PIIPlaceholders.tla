--------------------------- MODULE PIIPlaceholders ---------------------------
(***************************************************************************)
(* The placeholders of the pii-masking-regex policy (src/unnamed/part_000):*)
(* how maskPIIFromContent prints one, fmt.Sprintf("[%s_%04x]", key, n),    *)
(* and how placeholderPattern recognises one.  Text is a sequence of      *)
(* one-character strings.                                                  *)
(***************************************************************************)
EXTENDS Integers, Sequences, Functions

UpperChars == {"A","B","C","D","E","F","G","H","I","J","K","L","M","N",
               "O","P","Q","R","S","T","U","V","W","X","Y","Z","_"}
HexChars == <<"0","1","2","3","4","5","6","7","8","9","a","b","c","d","e","f">>

\* fmt.Sprintf("%x", n)
RECURSIVE Hex(_)
Hex(n) == IF n < 16 THEN <<HexChars[n + 1]>>
          ELSE Hex(n \div 16) \o <<HexChars[(n % 16) + 1]>>

\* fmt.Sprintf("%04x", n): zero-padded to at least four digits
Hex04(n) == [i \in 1..(4 - Len(Hex(n))) |-> "0"] \o Hex(n)

\* fmt.Sprintf("[%s_%04x]", key, counter)
Placeholder(key, counter) == <<"[">> \o key \o <<"_">> \o Hex04(counter) \o <<"]">>

\* placeholderPattern ^\[[A-Z_]+_[0-9a-f]{4}\]$
PlaceholderShaped(s) ==
    /\ Len(s) >= 8
    /\ s[1] = "[" /\ s[Len(s)] = "]" /\ s[Len(s) - 5] = "_"
    /\ \A i \in 2..(Len(s) - 6) : s[i] \in UpperChars
    /\ \A i \in (Len(s) - 4)..(Len(s) - 1) : s[i] \in Range(HexChars)

=============================================================================
