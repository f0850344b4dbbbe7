------------------------------- MODULE MCJson -------------------------------
(* A program that changes JsonFree documents, or reads and prints a text: a  *)
(* behaviour is about one of the two, and they use the same nodes.           *)
(* The strings of a text are: plain, an escaped quote and a newline, an      *)
(* escaped surrogate pair, an escaped high surrogate alone, U+2028 as bytes, *)
(* and an escape that does not exist.                                        *)
EXTENDS JsonTree, JsonText

CONSTANTS Dotted, Empty   \* the keys "a.b" and ""

VARIABLE part

MCCuts == (Empty :> <<>>) @@ (Dotted :> <<"a", "b">>)

Plain == <<120>>
Escaped == <<BackSlash, Quote, BackSlash, 110>>
HighSurrogate == <<BackSlash, 117, 100, 56, 51, 100>>
SurrogatePair == HighSurrogate \o <<BackSlash, 117, 100, 101, 48, 48>>
LineSeparator == <<226, 128, 168, BackSlash, 116>>
WrongEscape == <<BackSlash, 113>>

MCKeys == {Plain, <<95, 105, 100>>}
MCStrings ==
    (<<>> :> <<>>) @@ (Escaped :> <<Quote, 10>>) @@ (HighSurrogate :> <<237, 160, 189>>)
    @@ (SurrogatePair :> <<240, 159, 152, 128>>) @@ (LineSeparator :> <<226, 128, 168, 9>>)
    @@ (WrongEscape :> BadEscape)
MCRests == {<<>>, Escaped, WrongEscape}
MCWords == {"null", "007", "bad"}

Init ==
    \/ /\ part = "tree" /\ InitTree
       /\ text = <<>> /\ look = End /\ stack = <<>> /\ keyn = <<>> /\ pc = "parse_to"
    \/ part = "text" /\ InitText /\ calls = 0
Next ==
    /\ UNCHANGED part
    /\ \/ part = "tree" /\ NextTree /\ UNCHANGED textVars
       \/ part = "text" /\ NextText /\ UNCHANGED calls
Spec == Init /\ [][Next]_<<node, calls, textVars, part>>
=============================================================================
