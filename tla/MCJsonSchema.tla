---------------------------- MODULE MCJsonSchema ----------------------------
(* JsonSchema with a structure that has a field of every kind. *)
EXTENDS JsonSchema

F(key, name, required, default, spec) ==
    [key |-> key, name |-> name, required |-> required, default |-> default, spec |-> spec]

MCThrift ==
    ("Top" :> <<F(1, "n", "required", <<>>, [typeId |-> "i32"]),
                F(2, "s", "optional", <<>>, [typeId |-> "struct", class |-> "Sub"]),
                F(3, "l", "optional", <<>>, [typeId |-> "list", elem |-> [typeId |-> "struct", class |-> "Sub"]]),
                F(4, "m", "optional", <<>>, [typeId |-> "map", key |-> "string", value |-> [typeId |-> "i32"]]),
                F(5, "d", "optional", <<"Double", "1.5">>, [typeId |-> "double"])>>)
    @@ ("Sub" :> <<F(1, "x", "required", <<>>, [typeId |-> "i32"]),
                   F(2, "y", "optional", <<>>, [typeId |-> "string"])>>)

MCStarts == {<<>>, <<<<"l", "0">>, <<"l", "1", "y">>>>, <<<<"s">>, <<"m", "1">>>>}
MCCuts == "a.b" :> <<"a", "b">>
MCValues == {<<"Int", "7">>, <<"String", "t">>, <<"Null", "null">>}
=============================================================================
