------------------------------ MODULE MCEngine -------------------------------
(* Engine for TLC: trees of up to three nodes that differ in what is under    *)
(* what, in order, in component, text, property, token and bindings.          *)
EXTENDS Engine, TLC

CONSTANTS stack, label, hi, bye, red, blue, accent, signal

Plain(id, parent, index) ==
  [id |-> id, component |-> stack, parent |-> parent, index |-> index,
   text |-> None, textBinding |-> None, prop |-> None, propBinding |-> None,
   token |-> None]

Label(n, t) == [n EXCEPT !.component = label, !.text = t]
Bound(n, t) == [n EXCEPT !.component = label, !.text = t, !.textBinding = signal]

Root == Plain(1, None, 0)

\* 1[2[3]]: a bound text under a stack.
Nested == <<Root, Plain(2, 1, 0), Bound(Plain(3, 2, 0), bye)>>
\* 1[2]: the stack became a label, its child is gone.
Short == <<Root, [Label(Plain(2, 1, 0), hi) EXCEPT !.prop = red]>>
\* 1[2, 3]: id 3 is now a child of the root; 2 has a token and a new text.
Wide == <<Root, [Label(Plain(2, 1, 0), bye) EXCEPT !.prop = red, !.token = accent,
                                               !.propBinding = signal],
          [Bound(Plain(3, 1, 1), hi) EXCEPT !.propBinding = signal]>>
\* 1[3, 2]: the same two the other way round, with a literal for the token.
Swapped == <<Root, [Bound(Plain(3, 1, 0), hi) EXCEPT !.prop = blue],
             [Label(Plain(2, 1, 1), bye) EXCEPT !.prop = blue]>>

\* 1[3]: only the first child is gone.
Alone == <<Root, Bound(Plain(3, 1, 0), hi)>>

MCViews == {Nested, Short, Wide, Swapped, Alone}

\* A child more in front of the others (ids 1 .. 4): refutes ChildrenInOrder.
OrderViews == {<<Root, Plain(2, 1, 0), Plain(3, 1, 1)>>,
               <<Root, Plain(4, 1, 0), Plain(2, 1, 1), Plain(3, 1, 2)>>}
=============================================================================
