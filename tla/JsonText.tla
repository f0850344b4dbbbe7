------------------------------ MODULE JsonText ------------------------------
(* JsonParser and JsonBase::dump: a text read into a JsonFree document      *)
(* through the builders, and a document written as a text (jsonparser.cpp,  *)
(* jsonbuilder, jsondump.cpp, jsonbase.cpp).                                *)
(*                                                                          *)
(* A text is a sequence of tokens that is chosen while the parser reads it. *)
(* "#" is a comment and " " are blanks. The recursion of parse_value is the *)
(* stack. An exception ends the parsing and leaves the document as far as   *)
(* it was built.                                                            *)
EXTENDS JsonNodes

CONSTANTS Keys,       \* texts between quotes that are used as keys
          Strings,    \* texts between quotes used as values, with what JSON says they are
          Rests,      \* those of them that may be left open at the end of a text
          Words,      \* unquoted texts
          MaxText,    \* bound on the tokens of a text
          MaxRare,    \* bound on those that are comments, blanks or strings that are not plain
          MaxDepth    \* json_max_depth

Raws == DOMAIN Strings

VARIABLES
    text,    \* tokens consumed
    look,    \* the token at cur_pos
    stack,   \* the objects and arrays being parsed, outermost first
    keyn,    \* key of the value to come
    pc       \* what is to be parsed next

textVars == <<text, look, stack, keyn, pc>>

Out == 1    \* the top of the document that is read

------------------------------------------------------------------------------
(* Characters are their codes. *)

BackSlash == 92
Quote == 34
\* Escaped characters and what is written behind the backslash for them.
Escapes == (Quote :> Quote) @@ (BackSlash :> BackSlash) @@ (8 :> 98) @@ (12 :> 102)
           @@ (10 :> 110) @@ (13 :> 114) @@ (9 :> 116)
Unescapes == [c \in {Escapes[e] : e \in DOMAIN Escapes} |->
                 CHOOSE e \in DOMAIN Escapes : Escapes[e] = c] @@ (39 :> 39) @@ (47 :> 47)

\* "_key" and "_id".
OidKeys == {<<95, 107, 101, 121>>, <<95, 105, 100>>}

HexDigits == [d \in 0..15 |-> IF d < 10 THEN 48 + d ELSE 87 + d]
HexValue(c) == CASE c \in 48..57 -> c - 48 [] c \in 97..102 -> c - 87 [] c \in 65..70 -> c - 55
                 [] OTHER -> -1
HexOf(n) == [i \in 1..4 |-> HexDigits[(n \div (16^(4 - i))) % 16]]

\* encode_utf8: the bytes of a code point, none for -1.
encode_utf8(pt) ==
    LET Byte(k) == 128 + ((pt \div (64^k)) % 64)
    IN CASE pt < 0 -> <<>>
         [] pt \in 0..127 -> <<pt>>
         [] pt \in 128..2047 -> <<192 + pt \div 64, Byte(0)>>
         [] pt \in 2048..65535 -> <<224 + pt \div 4096, Byte(1), Byte(0)>>
         [] OTHER -> <<240 + pt \div 262144, Byte(2), Byte(1), Byte(0)>>

\* Mutation of Pending: a \u escape at the end of the text is lost.
PendingLost(last) == <<>>

\* What undumpString still has to write at the end.
Pending(last) == encode_utf8(last)

BadEscape == <<-1>>    \* undumpString threw

\* undumpString from position i on, with the last escaped code point pending.
\* The two halves of a surrogate pair make one code point.
RECURSIVE Undumped(_, _, _)
Undumped(s, i, last) ==
    LET Then(out, j, pending) ==
            LET rest == Undumped(s, j, pending) IN IF rest = BadEscape THEN rest ELSE out \o rest
        hex == SubSeq(s, i + 2, i + 5)
        cp == FoldLeft(LAMBDA n, c : 16 * n + HexValue(c), 0, hex)
    IN CASE i > Len(s) -> Pending(last)
         [] i <= Len(s) /\ s[i] # BackSlash -> Then(encode_utf8(last) \o <<s[i]>>, i + 1, -1)
         [] i = Len(s) /\ s[i] = BackSlash -> BadEscape
         [] i < Len(s) /\ s[i] = BackSlash /\ s[i + 1] = 117 ->
              IF Len(hex) < 4 \/ \E k \in 1..4 : HexValue(hex[k]) = -1 THEN BadEscape
              ELSE IF last \in 55296..56319 /\ cp \in 56320..57343
              THEN Then(encode_utf8((last - 55296) * 1024 + (cp - 56320) + 65536), i + 6, -1)
              ELSE Then(encode_utf8(last), i + 6, cp)
         [] OTHER -> IF s[i + 1] \in DOMAIN Unescapes
                     THEN Then(encode_utf8(last) \o <<Unescapes[s[i + 1]]>>, i + 2, -1)
                     ELSE BadEscape

undumpString(s) == IF BackSlash \in ToSet(s) THEN Undumped(s, 1, -1) ELSE s

\* json::dump of a string, without its quotes: one character, or the three
\* bytes of U+2028 and U+2029, at a time.
RECURSIVE DumpedFrom(_, _)
DumpedFrom(s, i) ==
    CASE i > Len(s) -> <<>>
      [] i <= Len(s) /\ s[i] \in DOMAIN Escapes -> <<BackSlash, Escapes[s[i]]>> \o DumpedFrom(s, i + 1)
      [] i <= Len(s) /\ s[i] \in (0..31) \ DOMAIN Escapes ->
            <<BackSlash, 117>> \o HexOf(s[i]) \o DumpedFrom(s, i + 1)
      [] i + 2 <= Len(s) /\ SubSeq(s, i, i + 1) = <<226, 128>> /\ s[i + 2] \in {168, 169} ->
            <<BackSlash, 117>> \o HexOf(8232 + s[i + 2] - 168) \o DumpedFrom(s, i + 3)
      [] OTHER -> <<s[i]>> \o DumpedFrom(s, i + 1)

dumpString(s) == DumpedFrom(s, 1)

------------------------------------------------------------------------------
(* Tokens. *)

Token(kind, value) == [kind |-> kind, value |-> value]
Mark(c) == Token(c, <<>>)
Marks == {Mark(c) : c \in {"{", "}", "[", "]", ":", ","}}
Blanks == {"#", " "}
\* A quote with no other after it: all the rest is in it.
Opened(raw) == Token("open", raw)
End == Mark("end")

Rare == {Mark(c) : c \in Blanks} \cup {Token("str", s) : s \in Raws \ Keys} \cup {Opened(s) : s \in Rests}
Tokens == Marks \cup Rare \cup {Token("str", s) : s \in Keys} \cup {Token("word", w) : w \in Words}

\* The next token, after one that has been consumed. A text has at most MaxRare
\* of the rare ones.
Lookahead(t, tok) ==
    IF tok.kind = "open" \/ Len(t) >= MaxText THEN {End}
    ELSE {End} \cup (IF Len(SelectSeq(t, LAMBDA s : s \in Rare)) < MaxRare THEN Tokens
                     ELSE Tokens \ Rare)

\* cur_pos passes the current token.
Advance ==
    /\ look.kind # "end"
    /\ text' = Append(text, look)
    /\ look' \in Lookahead(text', look)

------------------------------------------------------------------------------
(* The parser. *)

Given == [type |-> "Object", key |-> "top", val |-> "", ndx |-> 0, parent |-> NoNode, children |-> <<>>]

InitText ==
    /\ node = Added(<<>>, Out, Given)
    /\ text = <<>> /\ look \in Tokens \cup {End}
    /\ stack = <<>> /\ keyn = <<>> /\ pc = "parse_to"

Kind(at) == node[at].type
Closing(at) == IF Kind(at) = "Object" THEN "}" ELSE "]"
\* What a container has before its next value.
Element(at) == IF Kind(at) = "Object" THEN "key" ELSE "value"

\* parse_string or undumpString throws: the text ends with the quote, or has a
\* wrong escape.
Unreadable ==
    \/ look.kind = "open" /\ look.value = <<>>
    \/ undumpString(look.value) = BadEscape

Throw ==
    /\ pc' = "thrown"
    /\ UNCHANGED <<node, text, look, stack, keyn>>

\* skip_space_comment: it is called wherever the parser looks at a token.
\* Blanks behind an unquoted value are trimmed, a comment is not; behind an
\* unquoted text that is all of the document nothing is.
SkipComment ==
    /\ look.kind \in Blanks /\ pc \notin {"top_scalar", "thrown", "done"}
    /\ pc = "scalar" => look.kind = " "
    /\ Advance
    /\ UNCHANGED <<node, stack, keyn, pc>>

\* parse_to with a text that begins with a bracket: the builder empties Out.
ParseTop(open, type) ==
    /\ pc = "parse_to" /\ look.kind = open
    /\ Advance
    /\ node' = UpdateNode(node, Out, type, "")
    /\ stack' = <<Out>> /\ pc' = "first"
    /\ UNCHANGED keyn

\* set_scalar with a string; one that is not closed is taken as it is.
SetString ==
    /\ pc = "parse_to" /\ look.kind \in {"str", "open"}
    /\ IF Unreadable THEN Throw
       ELSE /\ Advance
            /\ node' = UpdateNode(node, Out, "String", undumpString(look.value))
            /\ pc' = "close"
            /\ UNCHANGED <<stack, keyn>>

\* set_scalar with all the rest of the text, which is<T> takes for no value when
\* there are blanks in it.
SetScalarWord ==
    /\ pc = "parse_to" /\ look.kind = "word"
    /\ Advance
    /\ pc' = "top_scalar"
    /\ UNCHANGED <<node, stack, keyn>>

SetScalar ==
    /\ pc = "top_scalar"
    /\ LET value == Infer(Last(text).value)
       IN IF look.kind # "end" \/ value[1] = "String" THEN Throw
          ELSE /\ node' = UpdateNode(node, Out, value[1], value[2])
               /\ pc' = "close"
               /\ UNCHANGED <<text, look, stack, keyn>>

ParseToThrows ==
    /\ pc = "parse_to" /\ look.kind \in {"}", "]", ":", ",", "end"}
    /\ Throw

\* A comment at the end of the text with no new line behind it leaves cur_pos at
\* npos. In a text of nothing else what is read there is no part of the text: a
\* bracket makes Out an empty Object or Array before the exception.
CommentOnly ==
    /\ pc = "parse_to" /\ look.kind = "end"
    /\ text # <<>> /\ Last(text).kind = "#"
    /\ \E type \in Structured : node' = UpdateNode(node, Out, type, "")
    /\ pc' = "thrown"
    /\ UNCHANGED <<text, look, stack, keyn>>

\* The end of parse_object or parse_array.
CloseContainer ==
    /\ pc \in {"first", "after"} /\ look.kind = Closing(Last(stack))
    /\ Advance
    /\ stack' = Front(stack)
    /\ pc' = IF Len(stack) = 1 THEN "close" ELSE "after"
    /\ UNCHANGED <<node, keyn>>

\* Behind the opening bracket anything else is the first element.
FirstElement ==
    /\ pc = "first" /\ look.kind \notin Blanks \cup {Closing(Last(stack))}
    /\ IF look.kind = "end" THEN Throw
       ELSE pc' = Element(Last(stack)) /\ UNCHANGED <<node, text, look, stack, keyn>>

ParseKey ==
    /\ pc = "key" /\ look.kind \notin Blanks
    /\ IF look.kind # "str" THEN Throw
       ELSE Advance /\ keyn' = look.value /\ pc' = "colon" /\ UNCHANGED <<node, stack>>

ParseColon ==
    /\ pc = "colon" /\ look.kind \notin Blanks
    /\ IF look.kind # ":" THEN Throw
       ELSE Advance /\ pc' = "value" /\ UNCHANGED <<node, stack, keyn>>

\* Mutation of TooDeep: one level less.
TooDeepEarly == Len(stack) > MaxDepth

TooDeep == Len(stack) - 1 > MaxDepth
\* The key of the next value: in an array the builder's nextKey().
ValueKey(at) == IF Kind(at) = "Array" THEN NextKey(node, at) ELSE keyn

\* parse_value with a string; one that is not closed is added too.
ValueString ==
    /\ pc = "value" /\ look.kind \in {"str", "open"} /\ Room(1)
    /\ IF TooDeep \/ Unreadable THEN Throw
       ELSE /\ Advance
            /\ node' = AppendNode(node, Last(stack), ValueKey(Last(stack)), "String",
                                  undumpString(look.value))
            /\ pc' = "after"
            /\ UNCHANGED <<stack, keyn>>

\* parse_value with a bracket: addObject or addArray, and the recursion with the
\* new builder.
ValueContainer(open, type) ==
    /\ pc = "value" /\ look.kind = open /\ Room(1)
    /\ IF TooDeep THEN Throw
       ELSE LET r == Appended(node, Last(stack), ValueKey(Last(stack)), type, "")
            IN /\ Advance
               /\ node' = r.h
               /\ stack' = Append(stack, r.at)
               /\ pc' = "first"
               /\ UNCHANGED keyn

\* The default case reads up to the next of , ] } whatever is before it.
ValueWord ==
    /\ pc = "value" /\ look.kind = "word" /\ Room(1)
    /\ IF TooDeep THEN Throw
       ELSE Advance /\ pc' = "scalar" /\ UNCHANGED <<node, stack, keyn>>

ValueThrows ==
    /\ pc = "value" /\ look.kind \in {"}", "]", ":", ",", "end"}
    /\ Throw

\* The unquoted value that was passed last.
Unquoted == Last(SelectSeq(text, LAMBDA t : t.kind = "word"))

\* testScalar adds no unquoted String.
Scalar ==
    /\ pc = "scalar" /\ look.kind # " "
    /\ LET word == Unquoted.value
       IN IF look.kind \notin {",", "]", "}", "end"} \/ Infer(word)[1] = "String" THEN Throw
          ELSE /\ node' = AppendNode(node, Last(stack), ValueKey(Last(stack)),
                                     Infer(word)[1], Infer(word)[2])
               /\ pc' = "after"
               /\ UNCHANGED <<text, look, stack, keyn>>

After ==
    /\ pc = "after" /\ look.kind \notin Blanks \cup {Closing(Last(stack))}
    /\ IF look.kind # "," THEN Throw
       ELSE Advance /\ pc' = Element(Last(stack)) /\ UNCHANGED <<node, stack, keyn>>

\* The end of parse_to.
Close ==
    /\ pc = "close" /\ look.kind \notin Blanks
    /\ IF look.kind # "end" THEN Throw
       ELSE pc' = "done" /\ UNCHANGED <<node, text, look, stack, keyn>>

NextText ==
    \/ SkipComment \/ SetString \/ SetScalarWord \/ SetScalar \/ ParseToThrows \/ CommentOnly
    \/ ParseTop("{", "Object") \/ ParseTop("[", "Array")
    \/ CloseContainer \/ FirstElement \/ ParseKey \/ ParseColon
    \/ ValueString \/ ValueWord \/ ValueThrows \/ Scalar \/ After \/ Close
    \/ ValueContainer("{", "Object") \/ ValueContainer("[", "Array")

------------------------------------------------------------------------------
(* dump: the tokens of a node. *)

\* getFieldValue() is empty: so it is for every object and every array.
EmptyValue(h, n) ==
    \/ h[n].type \in Structured
    \/ h[n].type = "String" /\ h[n].val = <<>>

\* dump2stream prints no _key and no _id with an empty value.
Printed(h, n) ==
    SelectSeq(h[n].children,
              LAMBDA c : ~(h[n].type = "Object" /\ h[c].key \in OidKeys /\ EmptyValue(h, c)))

Quoted(s) == <<Token("str", s)>>

RECURSIVE dump(_, _)
dump(h, n) ==
    LET Comma(i) == IF i = 1 THEN <<>> ELSE <<Mark(",")>>
        Name(c) == IF h[n].type = "Object" THEN Quoted(h[c].key) \o <<Mark(":")>> ELSE <<>>
        inside == FlattenSeq([i \in DOMAIN Printed(h, n) |->
                      LET c == Printed(h, n)[i] IN Comma(i) \o Name(c) \o dump(h, c)])
    IN CASE h[n].type = "Object" -> <<Mark("{")>> \o inside \o <<Mark("}")>>
         [] h[n].type = "Array" -> <<Mark("[")>> \o inside \o <<Mark("]")>>
         [] h[n].type = "String" -> Quoted(dumpString(h[n].val))
         [] h[n].type = "Null" -> <<Token("word", "null")>>
         [] OTHER -> <<Token("word", h[n].val)>>

------------------------------------------------------------------------------
(* What must hold. *)

\* A text without comments and blanks, every string as the characters Chars says and every
\* word as its value.
Meaning(tokens, Chars(_)) ==
    LET Means(t) == CASE t.kind \in {"str", "open"} -> Token("str", Chars(t.value))
                      [] t.kind = "word" -> Token("word", Infer(t.value)[2])
                      [] OTHER -> t
        real == SelectSeq(tokens, LAMBDA t : t.kind \notin Blanks)
    IN [i \in DOMAIN real |-> Means(real[i])]

\* A document that was read is the text that was read: written again it has the
\* same tokens in the same order, and the same characters in its strings.
\* Nothing but an _id or a _key with an empty value is left out.
RoundTrip ==
    LET hidden == {n \in DOMAIN node \ {Out} :
                     /\ Kind(node[n].parent) = "Object" /\ node[n].key \in OidKeys
                     /\ EmptyValue(node, n)}
    IN pc = "done" /\ hidden = {} =>
        Meaning(dump(node, Out), undumpString)
            = Meaning(text, LAMBDA raw : IF raw \in Raws THEN Strings[raw] ELSE raw)

\* What JSON allows behind a text without comments and blanks: brk are the open brackets
\* and last is what came last, a "key", a "value", or a mark.
Allowed(t) ==
    LET S[i \in 0..Len(t)] ==
            IF i = 0 THEN [brk |-> <<>>, last |-> "begin"]
            ELSE LET p == S[i - 1]
                     up == [brk |-> Front(p.brk), last |-> "value"]
                 IN CASE t[i].kind \in {"{", "["} -> [brk |-> Append(p.brk, t[i].kind), last |-> t[i].kind]
                      [] t[i].kind \in {"}", "]"} -> up
                      [] t[i].kind \in {":", ","} -> [p EXCEPT !.last = t[i].kind]
                      [] OTHER -> [p EXCEPT !.last = IF p.brk # <<>> /\ Last(p.brk) = "{" /\ p.last \in {"{", ","}
                                                     THEN "key" ELSE "value"]
        end == S[Len(t)]
        inObject == end.brk # <<>> /\ Last(end.brk) = "{"
        value == {"{", "[", "str", "word"}
        close == IF inObject THEN {"}"} ELSE {"]"}
    IN CASE end.last = "value" /\ end.brk = <<>> -> {"end"}
         [] end.last = "value" /\ end.brk # <<>> -> {","} \cup close
         [] end.last = "key" -> {":"}
         [] end.last = "{" -> {"str", "}"}
         [] end.last = "[" -> value \cup {"]"}
         [] end.last = "," /\ inObject -> {"str"}
         [] OTHER -> value

\* The texts the parser refuses although JSON allows them so far: a comment
\* behind an unquoted value, blanks too when the value is the document, and more
\* than MaxDepth containers in each other.
Refused(real) ==
    \/ look.kind = "#" /\ real # <<>> /\ Last(real).kind = "word"
    \/ look.kind = " " /\ [i \in DOMAIN real |-> real[i].kind] = <<"word">>
    \/ Len(stack) - 1 > MaxDepth

\* An exception has a reason in the text: what is at hand is not allowed there,
\* a string has a wrong escape or does not end, a value has no quotes and is none,
\* or the text is one of those that Refused lists.
ThrowsForReason ==
    pc = "thrown" =>
        LET real == SelectSeq(text, LAMBDA t : t.kind \notin Blanks)
        IN \/ look.kind \notin Allowed(real)
           \/ look.kind = "str" /\ undumpString(look.value) = BadEscape
           \/ \E i \in DOMAIN text : text[i].kind = "open"
           \/ \E i \in DOMAIN text : text[i].kind = "word" /\ Infer(text[i].value)[1] = "String"
           \/ Refused(real)
=============================================================================
