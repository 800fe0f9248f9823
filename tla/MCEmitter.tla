------------------------------ MODULE MCEmitter ------------------------------
(* Emitter for TLC: three signals, and seven roots that swap content of equal *)
(* and of other components, in slots beside bound texts, in slots within      *)
(* slots on one signal and on two, under a router, and with a text less.      *)
EXTENDS Emitter

CONSTANTS stack, label, button, hi, bye, save, drop, a, b, name

MCSignals == {a, b, name}
MCTextValues == {hi, bye, Blank}
MCValuesOf == [s \in MCSignals |-> IF s = name THEN {hi, Blank} ELSE BOOLEAN]

Node(component) ==
  [component |-> component, text |-> None, bind |-> None, slot |-> None,
   tap |-> None, router |-> FALSE, link |-> FALSE]

\* A node over trees.
Tree(node, children) ==
  <<>> :> node
  @@ [p \in UNION {{<<i>> \o q : q \in DOMAIN children[i]} : i \in DOMAIN children} |->
        children[Head(p)][Tail(p)]]

Stack(children) == Tree(Node(stack), children)
Label(text) == Tree([Node(label) EXCEPT !.text = text], <<>>)
Bound(s, v) == Tree([Node(label) EXCEPT !.text = v[s], !.bind = s], <<>>)
Tap(text, action) == Tree([Node(button) EXCEPT !.text = text, !.tap = action], <<>>)
Link(text) == Tree([Node(button) EXCEPT !.text = text, !.link = TRUE], <<>>)
Rows(children) == Tree([Node(button) EXCEPT !.tap = save], children)

\* Conditional.when; an empty sequence is a slot without content.
When(s, v, then, else) ==
  Tree([Node(stack) EXCEPT !.slot = s], IF v[s] THEN then ELSE else)
Navigation(s, v, then, else) ==
  Tree([Node(stack) EXCEPT !.slot = s, !.router = TRUE], IF v[s] THEN then ELSE else)

MCRoots == {"beside", "actions", "nested", "one signal", "router", "optional", "rows"}

MCRender == [r \in MCRoots |-> [v \in Valuations |->
  CASE r = "beside" ->
         Stack(<<When(a, v, <<Label(hi)>>, <<Stack(<<Bound(name, v), Tap(bye, save)>>)>>),
                 Bound(name, v)>>)
    [] r = "actions" ->
         Stack(<<When(a, v, <<Tap(hi, save)>>, <<Tap(hi, drop)>>),
                 When(b, v, <<Bound(name, v)>>, <<Label(bye)>>)>>)
    [] r = "nested" ->
         When(a, v, <<Stack(<<Label(bye), When(b, v, <<Bound(name, v)>>, <<Tap(hi, drop)>>)>>)>>,
                    <<Stack(<<Bound(name, v), Tap(hi, save)>>)>>)
    [] r = "one signal" ->
         When(a, v, <<When(a, v, <<Bound(name, v)>>, <<>>)>>,
                    <<Stack(<<When(b, v, <<Label(bye)>>, <<Bound(name, v)>>)>>)>>)
    [] r = "router" ->
         Navigation(a, v, <<Stack(<<Link(hi), When(b, v, <<Link(bye)>>, <<Bound(name, v)>>)>>)>>,
                          <<Label(bye)>>)
    [] r = "optional" ->
         Stack(<<When(a, v, <<Stack(<<Bound(name, v)>>)>>, <<>>),
                 When(b, v, <<Label(hi)>>, <<>>)>>)
    [] r = "rows" ->
         When(a, v, <<Tap(hi, save)>>,
              <<IF v[a] THEN Tap(bye, drop) ELSE Rows(<<Bound(name, v)>>)>>)]]
=============================================================================
