---------------------------- MODULE DesignTokens ----------------------------
(***************************************************************************)
(* Design tokens (pathland-core, tokens.rs): paths that stand for values,  *)
(* with the application's overrides and the renderer's defaults, each with *)
(* a dark layer.  Resolve is what the GTK renderer computes; BrowserValue  *)
(* what a browser makes of the style sheet and the var(...) references the *)
(* HTML renderer writes.                                                   *)
(*                                                                         *)
(* A path is a model value, Above[path] its parent ("font.body" of         *)
(* "font.body.size"), None at the top; Factor[path] is n for "space.<n>",  *)
(* else 0.  Values are numbers.                                            *)
(***************************************************************************)
EXTENDS Integers, FiniteSets

CONSTANTS Tokens, Above, Factor, SpaceBase, None

ASSUME TokenAssumption ==
  /\ Above \in [Tokens -> Tokens \union {None}]
  /\ Factor \in [Tokens -> Nat]
  /\ SpaceBase \in Tokens /\ Factor[SpaceBase] = 0

Schemes == {"light", "dark"}

\* A table of values, and the four a renderer consults.
NoValues == [path \in Tokens |-> None]
NoTables == [overrides |-> NoValues, darkOverrides |-> NoValues,
             defaults |-> NoValues, darkDefaults |-> NoValues]

\* The n-th of parent_chain.
Ancestor(path, n) ==
  LET up[k \in 0 .. n] ==
        IF k = 0 THEN path ELSE IF up[k - 1] = None THEN None ELSE Above[up[k - 1]]
  IN  up[n]

\* The first of the chain that the table has.
Nearest(table, path) ==
  LET Has(n) == Ancestor(path, n) # None /\ table[Ancestor(path, n)] # None
      found == {n \in 0 .. Cardinality(Tokens) : Has(n)}
  IN  IF found = {} THEN None
      ELSE table[Ancestor(path, CHOOSE n \in found : \A k \in found : n <= k)]

FirstOf(layers) ==
  LET found == {n \in DOMAIN layers : layers[n] # None}
  IN  IF found = {} THEN None ELSE layers[CHOOSE n \in found : \A k \in found : n <= k]

\* Overrides before defaults, and in each the dark layer first, if it is dark.
Lookup(path, scheme, tables) ==
  LET Dark(table) == IF scheme = "dark" THEN Nearest(table, path) ELSE None
  IN  FirstOf(<<Dark(tables.darkOverrides), Nearest(tables.overrides, path),
                Dark(tables.darkDefaults), Nearest(tables.defaults, path)>>)

\* space.<n> is n times space.base, if that has a value.
Resolve(path, scheme, tables) ==
  LET base == Lookup(SpaceBase, scheme, tables)
  IN  IF Factor[path] > 0 /\ base # None THEN base * Factor[path]
      ELSE Lookup(path, scheme, tables)

\* SET_DESIGN_TOKEN, a path with or without the prefix "dark.".
Overridden(tables, path, dark, value) ==
  IF dark THEN [tables EXCEPT !.darkOverrides[path] = value]
  ELSE [tables EXCEPT !.overrides[path] = value]

-----------------------------------------------------------------------------
(* The style sheets of the page: the renderer's, then the overrides', each   *)
(* with its dark rules last.  A variable has the last value that applies, and *)
(* no parent.                                                                *)

Variable(path, scheme, tables) ==
  LET Dark(table) == IF scheme = "dark" THEN table[path] ELSE None
  IN  FirstOf(<<Dark(tables.darkOverrides), tables.overrides[path],
                Dark(tables.darkDefaults), tables.defaults[path]>>)

BrowserValue(path, scheme, tables) ==
  IF Factor[path] = 0 THEN Variable(path, scheme, tables)
  ELSE LET base == Variable(SpaceBase, scheme, tables)
       IN  IF base = None THEN None ELSE base * Factor[path]
=============================================================================
