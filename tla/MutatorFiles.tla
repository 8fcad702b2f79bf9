---------------------------- MODULE MutatorFiles ----------------------------
(***************************************************************************)
(* The files the generator of mutants is tried on: loops, conditions, the  *)
(* calls whose arguments are special, literals, comments and structs.      *)
(***************************************************************************)
EXTENDS Integers, Sequences

\* A node: its type, parent and part in it, text, and first and last token.
Nd(type, parent, part, text, first, last) ==
    [type |-> type, parent |-> parent, part |-> part, text |-> text, first |-> first, last |-> last,
     line |-> 1, body |-> TRUE, args |-> 1, names |-> 1, exported |-> TRUE, lower |-> text,
     tag |-> [wellFormed |-> TRUE, pairs |-> <<>>]]
Source(tokens, nodes) == [tokens |-> tokens, comments |-> {}, nodes |-> nodes]
Func == Nd("func", 0, "decl", "F", 1, 1)

\* for i < n { i++ }, with any condition or none, and with i += 1.
Loop(cond, step) ==
    LET for == Nd("for", 1, "stmt", "", 1, 5)
        in == IF cond = "" THEN <<>>
              ELSE <<Nd("binary", 2, "cond", cond, 1, 3), Nd("ident", 3, "x", "i", 1, 1),
                     Nd("ident", 3, "y", "n", 3, 3)>>
        counter == Len(in) + 3
    IN  Source(<<"i", cond, "n", "i", step>>,
               <<Func, for>> \o in \o
               IF step = "+=" THEN <<Nd("assign", 2, "stmt", step, 4, 5), Nd("ident", counter, "lhs", "i", 4, 4)>>
               ELSE <<Nd("incdec", 2, "stmt", step, 4, 5), Nd("ident", counter, "x", "i", 4, 4)>>)

\* for i < len(s), a && b && c, x != nil, and 1 - 1 as the operand of <.
Bounded == Source(<<"i", "<", "len", "s">>,
    <<Func, Nd("for", 1, "stmt", "", 1, 4), Nd("binary", 2, "cond", "<", 1, 4),
      Nd("ident", 3, "x", "i", 1, 1), Nd("call", 3, "y", "", 3, 4), Nd("ident", 5, "fun", "len", 3, 3),
      Nd("ident", 5, "arg0", "s", 4, 4)>>)
Conjunction == Source(<<"a", "&&", "b", "&&", "c">>,
    <<Func, Nd("binary", 1, "stmt", "&&", 1, 5), Nd("binary", 2, "x", "&&", 1, 3),
      Nd("ident", 3, "x", "a", 1, 1), Nd("ident", 3, "y", "b", 3, 3), Nd("ident", 2, "y", "c", 5, 5)>>)
NilCheck == Source(<<"x", "!=", "nil">>,
    <<Func, Nd("binary", 1, "stmt", "!=", 1, 3), Nd("ident", 2, "x", "x", 1, 1),
      Nd("ident", 2, "y", "nil", 3, 3)>>)
Difference == Source(<<"i", "--", "-", "1", "<", "0">>,
    <<Func, Nd("binary", 1, "stmt", "<", 1, 6), Nd("binary", 2, "x", "-", 1, 4),
      Nd("int", 3, "y", "1", 4, 4), Nd("int", 2, "y", "0", 6, 6)>>)

\* sort.Slice(s, func { return a < b }) and os.Mkdir("p", 7).
Sort == Source(<<"s", "a", "<", "b">>,
    <<Func, Nd("call", 1, "stmt", "", 1, 4), Nd("selector", 2, "fun", "sort.Slice", 1, 1),
      Nd("ident", 2, "arg0", "s", 1, 1), Nd("funclit", 2, "arg1", "", 2, 4),
      Nd("return", 5, "stmt", "", 2, 4), Nd("binary", 6, "value", "<", 2, 4)>>)
Mkdir == Source(<<"p", "7">>,
    <<Func, Nd("call", 1, "stmt", "", 1, 2), Nd("selector", 2, "fun", "os.Mkdir", 1, 1),
      Nd("string", 2, "arg0", "p", 1, 1), Nd("int", 2, "arg1", "7", 2, 2)>>)

\* import "x", return true, and a function without a body.
Literals == Source(<<"x", "true">>,
    <<Nd("import", 0, "decl", "", 1, 1), Nd("string", 1, "path", "x", 1, 1), Func,
      Nd("return", 3, "stmt", "", 2, 2), Nd("ident", 4, "value", "true", 2, 2)>>)
Bodyless == Source(<<"f">>, <<[Func EXCEPT !.body = FALSE]>>)

Comment(operator, reason) == [line |-> 0, operator |-> operator, reason |-> reason]
Commented(comment) == [Bounded EXCEPT !.comments = {comment}]

\* A struct of two fields, each with a tag.
Struct(tag1, tag2, exported1, exported2) ==
    LET Field(name, lower, exported, first) ==
            [Nd("field", 1, "field", name, first, first + 1) EXCEPT !.lower = lower, !.exported = exported]
        Tag(field, pairs, at) ==
            [Nd("string", field, "tag", "tag", at, at) EXCEPT !.tag.pairs = pairs]
    IN  Source(<<"Name", "tag", "Other", "tag">>,
               <<Nd("struct", 0, "decl", "S", 1, 4), Field("Name", "name", exported1, 1), Tag(2, tag1, 2),
                 Field("Other", "other", exported2, 3), Tag(4, tag2, 4)>>)
Key(key, name, options) == [key |-> key, name |-> name, options |-> options]
Tags == {<<Key("json", name, FALSE)>> : name \in {"Name", "Other", "", "-"}}
        \cup {<<Key("yaml", name, options)>> : name \in {"name", "other"}, options \in BOOLEAN}
        \cup {<<Key("yaml", "name", FALSE), Key("json", "", FALSE)>>, <<Key("db", "name", FALSE)>>}

MutatedFiles ==
    {Loop(cond, step) : cond \in {"<", ">=", "==", ""}, step \in {"++", "+="}}
    \cup {Bounded, Conjunction, NilCheck, Difference, Sort, Mkdir, Literals, Bodyless}
    \cup {Commented(Comment(operator, reason)) : operator \in {"conditionals", "*", "logical"},
                                                 reason \in BOOLEAN}
    \cup {Struct(t1, t2, e1, e2) : t1 \in Tags, t2 \in Tags, e1 \in BOOLEAN, e2 \in BOOLEAN}
=============================================================================
