SPECIFICATION FairSpec
CONSTANTS
  s = s
  t = t
  c1 = c1
  c2 = c2
  e1 = e1
  e2 = e2
  Sources = {s, t}
  Computeds = {c1, c2}
  Effects = {e1, e2}
  Values = {0, 1}
  x1 = x1
  x2 = x2
  x3 = x3
  x4 = x4
  Errors = {x1, x2, x3, x4}
  Nothing = Nothing
  Writers = {e1}
  Programs <- MCPrograms
  Does <- MCDoes
  BodyLength = 4
  MaxDepth = 20
INVARIANTS EdgesMirror NothingForgotten FlushOwned CaughtUp RerunSeesChange EffectsInTurn
PROPERTIES DestroyedSilent CallsReturn
