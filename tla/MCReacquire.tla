---------------------------- MODULE MCReacquire ----------------------------
\* Fields of both kinds; some share a name, two also a label, two share an id.  Forms with
\* an id, with a name that two of them share, with a number for a name, with a colon in
\* the id, with neither.
EXTENDS Reacquire

CONSTANTS f1, f2, f3, f4, g1, g2, d, e, i, body, note, A, B, C, One, Colon, Bare

Area(id, name, label) == [kind |-> "textarea", id |-> id, name |-> name, label |-> label]
Editable(id, name, label) == [Area(id, name, label) EXCEPT !.kind = "contenteditable"]

MCNodes == {f1, f2, f3, f4, g1, g2, d, e}
MCLook == [n \in MCNodes |->
  CASE n \in {f1, f2, f3} -> Area(Null, body, Null)
    [] n = f4 -> Editable(Null, body, note)
    [] n \in {g1, g2} -> Area(Null, body, note)
    [] n = d -> Area(i, Null, Null)
    [] n = e -> Editable(i, Null, Null)]
MCForms == {A, B, C, One, Colon, Bare}
ById(id) == [id |-> id, name |-> Null]
ByName(name) == [id |-> Null, name |-> name]
MCTitle == [f \in MCForms |->
  CASE f = A -> ById("tag")
    [] f \in {B, C} -> ByName("signup")
    [] f = One -> ByName("1")
    [] f = Colon -> ById(":r1:")
    [] f = Bare -> ByName(Null)]
MCPlaces == <<"0", "1", "2", "3", "4", "5">>
MCColoned == {":r1:"}
Block(f, fields) == [form |-> f, fields |-> fields]
Scene(blocks, owned) == [blocks |-> blocks, stock |-> owned]
NoFieldYet == Scene(<<>>, {f1, f2, A, B})
MCScenes == {Scene(<<Block(A, <<f1, f2>>)>>, {f1, f2, f3, A}),
             Scene(<<Block(A, <<f1>>), Block(B, <<f2>>)>>, {f1, f2, A, B}),
             Scene(<<Block(B, <<f4, f1>>), Block(Null, <<f2>>)>>, {f1, f2, f4, B}),
             Scene(<<Block(Null, <<d>>), Block(B, <<f4>>)>>, {d, e, f4, B}),
             Scene(<<Block(A, <<f1, g1>>)>>, {f1, g1, g2, A}),
             Scene(<<Block(Bare, <<f1>>), Block(One, <<f2>>)>>, {f1, f2, A, One, Bare}),
             Scene(<<Block(Colon, <<f1, f2>>), Block(Bare, <<g1>>)>>, {f1, f2, g1, Colon, Bare}),
             Scene(<<Block(B, <<f1>>), Block(C, <<f2>>)>>, {f1, f2, B, C}),
             NoFieldYet}
=============================================================================
