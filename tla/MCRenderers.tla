----------------------------- MODULE MCRenderers ----------------------------
(* Renderers for TLC: three nodes, a colour with a parent path and a length   *)
(* of the space family.                                                       *)
EXTENDS Renderers

CONSTANTS stack, label, button, picker, divider, shape, hi, colour, accent, spaceBase, twice

Values(path, v) == [NoValues EXCEPT ![path] = v]

MCAbove == [path \in Tokens |-> IF path = accent THEN colour ELSE None]
MCFactor == [path \in Tokens |-> IF path = twice THEN 2 ELSE 0]
MCDefaults == [defaults |-> [Values(spaceBase, 4) EXCEPT ![accent] = 5],
               darkDefaults |-> Values(accent, 6)]
MCNative == [s \in Schemes |-> Values(accent, IF s = "light" THEN 7 ELSE 8)]

MCNode(c, text, prop, token) ==
  [component |-> c, text |-> text, prop |-> prop, token |-> token]

MCNew == {MCNode(stack, None, None, twice), MCNode(label, hi, 1, None),
          MCNode(label, None, None, accent), MCNode(button, hi, None, None),
          MCNode(picker, None, None, None)}
=============================================================================
