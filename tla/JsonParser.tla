------------------------------ MODULE JsonParser ------------------------------
(***************************************************************************)
(* The JSON reader of the Execution Manager.  Its functions call each      *)
(* other; here the calls that are open are a stack of half-built objects   *)
(* and arrays, and expect says where the innermost call stands.            *)
(*                                                                         *)
(* A text is a sequence of tokens, of which the reader meets one after     *)
(* another: the marks of punctuation, which have names, and words, which   *)
(* JsonWords takes apart.  White space between tokens is left out.         *)
(***************************************************************************)
EXTENDS JsonWords

CONSTANT MaxTokens  \* bound: the length of a text

Punctuation == {"lbrace", "rbrace", "lbracket", "rbracket", "colon", "comma"}
Tokens == Words \cup Punctuation
NoKey == "no key"

ASSUME ParserAssumption ==
    /\ Words \cap Punctuation = {}
    /\ MaxTokens \in Nat

VARIABLES
    text,           \* what was read of the text
    stack,          \* the open objects and arrays, the innermost last; at is the place
                    \* of the bracket in the text, which no call keeps
    expect,         \* what the innermost call looks for, or the verdict
    document        \* the value of a text that was read in full

parserVars == <<text, stack, expect, document>>

Scalar(token) == [kind |-> "scalar", value |-> token]
Object(members) == [kind |-> "object", members |-> members]
Array(items) == [kind |-> "array", items |-> items]
NoDocument == [kind |-> "none"]

Verdicts == {"accepted", "refused", "cut"}
Reading == {"value", "first_item", "key", "first_key", "colon", "separator", "end"}

ParserInit ==
    /\ text = <<>>
    /\ stack = <<>>
    /\ expect = "value"
    /\ document = NoDocument

Top == stack[Len(stack)]
Below == SubSeq(stack, 1, Len(stack) - 1)
InObject == stack # <<>> /\ Top.kind = "object"
InArray == stack # <<>> /\ Top.kind = "array"

Read(token) ==
    /\ Len(text) < MaxTokens
    /\ text' = Append(text, token)

\* std::map::emplace: the first of two members of one name stays.
Emplace(members, key, value) ==
    IF \E m \in members : m[1] = key THEN members ELSE members \cup {<<key, value>>}

\* The object or array of a call with one more entry.
Grown(call, value) ==
    IF call.kind = "object" THEN [call EXCEPT !.members = Emplace(@, call.key, value)]
    ELSE [call EXCEPT !.items = Append(@, value)]

\* A value is complete: it goes into the innermost of these open calls.
Complete(open, value) ==
    IF open = <<>>
    THEN /\ stack' = <<>> /\ document' = value /\ expect' = "end"
    ELSE /\ stack' = [open EXCEPT ![Len(open)] = Grown(@, value)]
         /\ expect' = "separator"
         /\ UNCHANGED document
-----------------------------------------------------------------------------
ValueStarts == expect \in {"value", "first_item"}

ParseScalar ==
    /\ ValueStarts
    /\ \E t \in ReaderStrings \cup ReaderScalars : Read(t) /\ Complete(stack, Scalar(t))

OpenObject ==
    /\ ValueStarts
    /\ Read("lbrace")
    /\ stack' = Append(stack, [kind |-> "object", members |-> {}, key |-> NoKey, at |-> Len(text) + 1])
    /\ expect' = "first_key"
    /\ UNCHANGED document

OpenArray ==
    /\ ValueStarts
    /\ Read("lbracket")
    /\ stack' = Append(stack, [kind |-> "array", items |-> <<>>, at |-> Len(text) + 1])
    /\ expect' = "first_item"
    /\ UNCHANGED document

ParseKey ==
    /\ expect \in {"key", "first_key"}
    /\ \E t \in ReaderStrings :
         Read(t) /\ stack' = [stack EXCEPT ![Len(stack)].key = t]
    /\ expect' = "colon"
    /\ UNCHANGED document

ParseColon ==
    /\ expect = "colon"
    /\ Read("colon")
    /\ expect' = "value"
    /\ UNCHANGED <<stack, document>>

\* Mutant: what may follow a comma is what may follow the opening bracket.
ParseCommaAgain ==
    /\ expect = "separator"
    /\ Read("comma")
    /\ expect' = IF InObject THEN "first_key" ELSE "first_item"
    /\ UNCHANGED <<stack, document>>

ParseComma ==
    /\ expect = "separator"
    /\ Read("comma")
    /\ expect' = IF InObject THEN "key" ELSE "value"
    /\ UNCHANGED <<stack, document>>

CloseObject ==
    /\ expect \in {"separator", "first_key"} /\ InObject
    /\ Read("rbrace")
    /\ Complete(Below, Object(Top.members))

CloseArray ==
    /\ expect \in {"separator", "first_item"} /\ InArray
    /\ Read("rbracket")
    /\ Complete(Below, Array(Top.items))

\* What each call goes on with.
Expected ==
    CASE expect = "value" -> ReaderStrings \cup ReaderScalars \cup {"lbrace", "lbracket"}
      [] expect = "first_item" ->
            ReaderStrings \cup ReaderScalars \cup {"lbrace", "lbracket", "rbracket"}
      [] expect = "key" -> ReaderStrings
      [] expect = "first_key" -> ReaderStrings \cup {"rbrace"}
      [] expect = "colon" -> {"colon"}
      [] expect = "separator" -> {"comma", IF InObject THEN "rbrace" ELSE "rbracket"}
      [] OTHER -> {}

\* An exception leaves all calls; it is thrown for content after the value, too.
Refuse ==
    /\ expect \in Reading
    /\ \E t \in Tokens \ Expected : Read(t)
    /\ expect' = "refused"
    /\ stack' = <<>> /\ document' = NoDocument

EndOfText ==
    /\ expect \in Reading
    /\ expect' = IF expect = "end" THEN "accepted" ELSE "cut"
    /\ stack' = <<>>
    /\ UNCHANGED <<text, document>>

ParserNext ==
    \/ ParseScalar \/ OpenObject \/ OpenArray \/ ParseKey \/ ParseColon \/ ParseComma
    \/ CloseObject \/ CloseArray \/ Refuse \/ EndOfText
-----------------------------------------------------------------------------
(* The reference: JSON's grammar, with the values of each text, over the   *)
(* words that JSON has or the reader takes.                                *)

Strings == JsonStrings \cup ReaderStrings
Scalars == JsonScalars \cup ReaderScalars

Pairs(a, b) == {<<x, y>> : x \in a, y \in b}
Derived(tokens, value) == [text |-> tokens, value |-> value]

\* The texts of n tokens that each rule derives, with their values, where shorter has
\* those of less than n tokens. Items and members are the insides of arrays and objects
\* that are not empty.
Singles == {Derived(<<t>>, Scalar(t)) : t \in Strings \cup Scalars}
Empties == {Derived(<<"lbrace", "rbrace">>, Object({})), Derived(<<"lbracket", "rbracket">>, Array(<<>>))}
Arrays(items) == {Derived(<<"lbracket">> \o i.text \o <<"rbracket">>, Array(i.value)) : i \in items}
Objects(members) == {Derived(<<"lbrace">> \o m.text \o <<"rbrace">>, Object(m.value)) : m \in members}

ValuesOf(shorter, n) ==
    IF n = 1 THEN Singles
    ELSE IF n = 2 THEN Empties
    ELSE Arrays(shorter[n - 2].items) \cup Objects(shorter[n - 2].members)

OneItem(values) == {Derived(v.text, <<v.value>>) : v \in values}
MoreItems(items, values) ==
    {Derived(p[1].text \o <<"comma">> \o p[2].text, Append(p[1].value, p[2].value)) :
        p \in Pairs(items, values)}

ItemsOf(shorter, n) ==
    OneItem(ValuesOf(shorter, n))
    \cup UNION {MoreItems(shorter[n - 1 - k].items, shorter[k].values) : k \in 1..(n - 1)}

OneMember(values) ==
    {Derived(<<p[1], "colon">> \o p[2].text, {<<p[1], p[2].value>>}) : p \in Pairs(Strings, values)}

\* Of two members of one name, JSON lets a reader keep either.
Additions(members, key, value) ==
    {{m \in members : m[1] # key} \cup {<<key, value>>}}
    \cup {m \in {members} : \E x \in m : x[1] = key}

MoreMembers(members, values) ==
    UNION {{Derived(p[1].text \o <<"comma", p[2][1], "colon">> \o p[2][2].text, m) :
               m \in Additions(p[1].value, p[2][1], p[2][2].value)} :
        p \in Pairs(members, Pairs(Strings, values))}

MembersOf(shorter, n) ==
    IF n < 3 THEN {} ELSE
    OneMember(shorter[n - 2].values)
    \cup UNION {MoreMembers(shorter[n - 3 - k].members, shorter[k].values) : k \in 1..(n - 3)}

RulesOf(shorter, n) ==
    IF n = 0 THEN [values |-> {}, items |-> {}, members |-> {}]
    ELSE [values |-> ValuesOf(shorter, n), items |-> ItemsOf(shorter, n),
          members |-> MembersOf(shorter, n)]

JsonOf[n \in 0..MaxTokens] == RulesOf(JsonOf, n)

Json == UNION {JsonOf[n].values : n \in 0..MaxTokens}
JsonTexts == {j.text : j \in Json}
JsonPrefixes == UNION {{SubSeq(t, 1, n) : n \in 0..Len(t)} : t \in JsonTexts}

\* Is the word JSON's?
OfJson(w) == w \in JsonStrings \cup JsonScalars

\* The reader accepts JSON with a value that the grammar gives it, and nothing else but
\* for words that it reads more leniently: control characters in strings, zeros in front
\* of a number, a point, an exponent or a sign without digits.  It refuses a token only
\* when no JSON text goes on in that way, but for words that it does not support: a \u
\* escape, a number out of range.  It calls a text cut only when it is not JSON as it is.
AcceptsJson ==
    /\ expect = "accepted" =>
          /\ [text |-> text, value |-> document] \in Json
          /\ \A i \in DOMAIN text : text[i] \in Words => OfJson(text[i]) \/ Lenient(text[i])
    /\ expect = "refused" =>
          text \notin JsonPrefixes \/ text[Len(text)] \in {w \in Words : Unsupported(w)}
    /\ expect = "cut" => text \notin JsonTexts
=============================================================================
