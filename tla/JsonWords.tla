------------------------------- MODULE JsonWords -------------------------------
(***************************************************************************)
(* The words of a JSON text: its strings, numbers and literals, as the     *)
(* Execution Manager's reader cuts them and as JSON (RFC 8259) has them.   *)
(*                                                                         *)
(* A character stands for all that both treat alike: "9" for the digits    *)
(* but 0, "e" for both cases of the letter, "b" for b and f, "a" for the   *)
(* other letters of hexadecimal digits, "n" for n, r, t and the slash,     *)
(* "control" for those below the space, "other" for the rest, except that  *)
(* outside a string a word has neither punctuation nor white space.  A     *)
(* literal is spelled by one symbol.                                       *)
(***************************************************************************)
EXTENDS Naturals, Sequences

CONSTANTS
    Words,          \* what a text has besides punctuation and white space
    Spelling,       \* the characters of each word
    OutOfRange      \* the words whose number is too large or too small for a double

Digits == {"0", "9"}
HexDigits == Digits \cup {"a", "b", "e"}
Characters == HexDigits \cup
    {"-", "+", ".", "quote", "backslash", "n", "u", "control", "other"}
Literals == {<<"true">>, <<"false">>, <<"null">>}

ASSUME WordsAssumption ==
    /\ Spelling \in [Words -> (Seq(Characters) \ {<<>>}) \cup Literals]
    /\ OutOfRange \subseteq Words

\* Is there one of these characters at this place?
HasAt(s, i, characters) == i <= Len(s) /\ s[i] \in characters
-----------------------------------------------------------------------------
(* Strings *)

\* What follows a backslash that is not itself what follows one: the run of
\* backslashes before it is odd.
Escaped(s) ==
    {i \in 2..Len(s) : \E j \in 1..(i - 1) :
        /\ s[j] # "backslash" /\ \A k \in (j + 1)..(i - 1) : s[k] = "backslash"
        /\ (i - 1 - j) % 2 = 1}

\* The string begins with the word and ends with it, and not before.
Quoted(s) ==
    /\ s[1] = "quote" /\ Len(s) > 1
    /\ \A i \in 2..Len(s) : s[i] = "quote" /\ i \notin Escaped(s) <=> i = Len(s)

Escapes == {"quote", "backslash", "n", "b"}

ReadsString(s) == Quoted(s) /\ \A i \in Escaped(s) : s[i] \in Escapes

IsJsonString(s) ==
    /\ Quoted(s)
    /\ \A i \in Escaped(s) :
        s[i] \in Escapes \/ (s[i] = "u" /\ \A k \in 1..4 : HasAt(s, i + k, HexDigits))
    /\ \A i \in DOMAIN s : s[i] # "control"
-----------------------------------------------------------------------------
(* Numbers *)

\* The first place from i on that holds no digit.
DigitsEnd(s, i) ==
    CHOOSE j \in i..(Len(s) + 1) :
        (\A k \in i..(j - 1) : s[k] \in Digits) /\ ~HasAt(s, j, Digits)

Skip(s, i, characters) == IF HasAt(s, i, characters) THEN i + 1 ELSE i

\* ParseNumber comes to the end of the word, and std::stod finds a digit to begin with.
ReadsNumber(s) ==
    LET first == Skip(s, 1, {"-"})
        point == DigitsEnd(s, first)
        exponent == IF HasAt(s, point, {"."}) THEN DigitsEnd(s, point + 1) ELSE point
        end == IF HasAt(s, exponent, {"e"})
               THEN DigitsEnd(s, Skip(s, exponent + 1, {"+", "-"})) ELSE exponent
    IN  /\ HasAt(s, 1, {"-"} \cup Digits)
        /\ end = Len(s) + 1
        /\ \E i \in first..(exponent - 1) : s[i] \in Digits

\* One digit or more, from i up to j.
AreDigits(s, i, j) == i < j /\ \A k \in i..(j - 1) : s[k] \in Digits

\* [ minus ] int [ frac ] [ exp ], where int has no leading zero.
IsJsonNumber(s) ==
    \E first \in 1..2, point, exponent \in 1..(Len(s) + 1) :
        /\ first = 2 => s[1] = "-"
        /\ AreDigits(s, first, point) /\ (s[first] = "0" => point = first + 1)
        /\ \/ exponent = point
           \/ HasAt(s, point, {"."}) /\ AreDigits(s, point + 1, exponent)
        /\ \/ exponent = Len(s) + 1
           \/ /\ HasAt(s, exponent, {"e"})
              /\ \E digits \in (exponent + 1)..(exponent + 2) :
                    /\ AreDigits(s, digits, Len(s) + 1)
                    /\ digits = exponent + 2 => s[exponent + 1] \in {"+", "-"}
-----------------------------------------------------------------------------
(* Which words are what *)

ReaderStrings == {w \in Words : ReadsString(Spelling[w])}
ReaderScalars ==
    {w \in Words : Spelling[w] \in Literals \/ (ReadsNumber(Spelling[w]) /\ w \notin OutOfRange)}

JsonStrings == {w \in Words : IsJsonString(Spelling[w])}
JsonScalars == {w \in Words : Spelling[w] \in Literals \/ IsJsonNumber(Spelling[w])}

\* What the reader takes although JSON does not: a control character in a string; in a
\* number, zeros in front, and a point, an exponent or a sign without digits after it.
Lenient(w) ==
    LET s == Spelling[w] IN
    \/ s[1] = "quote" /\ (\E i \in DOMAIN s : s[i] = "control")
    \/ \E i \in 1..2 : HasAt(s, i, {"0"}) /\ HasAt(s, i + 1, Digits) /\ (i = 2 => s[1] = "-")
    \/ \E i \in DOMAIN s : s[i] \in {"-", "+", "."} /\ ~HasAt(s, i + 1, Digits)
    \/ \E i \in DOMAIN s : s[i] = "e" /\ ~HasAt(s, i + 1, Digits \cup {"+", "-"})

\* What the reader refuses although JSON has it: a \u escape in a string, and a number
\* for which std::stod throws.
Unsupported(w) ==
    \/ w \in OutOfRange /\ IsJsonNumber(Spelling[w])
    \/ Spelling[w][1] = "quote" /\ \E i \in Escaped(Spelling[w]) : Spelling[w][i] = "u"
=============================================================================
