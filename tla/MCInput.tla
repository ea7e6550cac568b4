------------------------------- MODULE MCInput -------------------------------
(* A small instance of Input for TLC: the lines of two feeds, one of which    *)
(* binds keys of its own, one that hides a global binding.                    *)
EXTENDS Input

Line(k, actions) == <<Bind(k)>> \o [i \in DOMAIN actions |-> Action(actions[i])]

Global == << Line("x", <<"mark", "next">>), Line("y", <<"open", "link">>),
             Line("/", <<"start_search">>), Line("enter", <<"back">>),
             Line("y", <<"open", "link", "mark">>),
             Line("escape", <<"link", "mark", "link">>) >>

MCConfigs == { [ global |-> Global,
                 feeds |-> ("f1" :> <<>>) @@ ("f2" :> << Line("x", <<"next", "open", "mark">>),
                                                        <<Bind("y")>> >>) ] }
=============================================================================
