--------------------------- MODULE MCSignalGraph ----------------------------
(* SignalGraph for TLC: two signals, two computeds and two effects, with     *)
(* bodies that execute a list of instructions and return the parity of the   *)
(* ones they saw.                                                            *)
EXTENDS SignalGraph

CONSTANTS s, t, c1, c2, e1, e2, x1, x2, x3, x4

\* until: the rest is left out once this was seen; fails: a 1 makes it throw.
Body(code) == [code |-> code, until |-> Nothing, fails |-> FALSE]
Until(v, code) == [Body(code) EXCEPT !.until = v]
Early(code) == Until(1, code)
Fails(code) == [Body(code) EXCEPT !.fails = TRUE]

Read1(p) == [do |-> "read", node |-> p]
Reads(list) == [i \in 1 .. Len(list) |-> Read1(list[i])]
Peek1(p) == [do |-> "peek", node |-> p]
Write1(p, v) == [do |-> "write", node |-> p, value |-> v]
Create1(n) == [do |-> "create", node |-> n]
Destroy1(n) == [do |-> "destroy", node |-> n]

Ones(seen) == {i \in 1 .. Len(seen) : seen[i] = 1}

MCDoes(p, n, seen) ==
  LET b == p[n]
  IN  IF Len(seen) < Len(b.code) /\ \A i \in 1 .. Len(seen) : seen[i] # b.until
        THEN b.code[Len(seen) + 1]
      ELSE IF b.fails /\ Ones(seen) # {} THEN [do |-> "throw"]
      ELSE [do |-> "return", value |-> Cardinality(Ones(seen)) % 2]

Program(bc1, bc2, be1, be2) ==
  [n \in Nodes |-> IF n = c1 THEN bc1 ELSE IF n = c2 THEN bc2
              ELSE IF n = e1 THEN be1 ELSE be2]

\* c2 over s and over a computed of s; dependencies that change with the values.
Diamond == Program(Body(Reads(<<s>>)), Body(Reads(<<s, c1>>)),
                   Body(Reads(<<c2>>)), Body(Reads(<<t, s>>)))
Dynamic == Program(Early(Reads(<<s, t>>)), Body(Reads(<<t, c1>>)),
                   Early(Reads(<<s, c2>>)), Body(Reads(<<c1>>)))
\* e1, a writer, sets the t it depends on.
Feeding == Program(Body(Reads(<<t>>)), Body(Reads(<<s, c1>>)),
                   Body(<<Read1(s), Read1(t), Write1(t, 1)>>), Body(Reads(<<c2, t>>)))
\* e1 creates and later destroys e2.
Nesting == Program(Body(Reads(<<s>>)), Body(Reads(<<t>>)),
                   Early(<<Read1(t), Create1(e2), Read1(c1), Destroy1(e2)>>),
                   Body(Reads(<<s, c2>>)))
Peeking == Program(Body(Reads(<<t>>)), Body(<<Peek1(c1), Read1(s)>>),
                   Body(<<Peek1(c1), Read1(s)>>), Body(<<Read1(c2), Peek1(t)>>))
\* Exceptions: of a computed, of an effect, of a forbidden write, of a cycle.
Failing == Program(Fails(Reads(<<s>>)), Body(Reads(<<c1>>)),
                   Body(Reads(<<t, c2>>)), Body(<<Read1(s), Peek1(c1)>>))
Throwing == Program(Body(Reads(<<s>>)), Body(Reads(<<s, c1>>)),
                    Fails(Reads(<<c1>>)), Body(Reads(<<c1, t>>)))
Forbidden == Program(Body(<<Read1(s), Write1(t, 1)>>), Body(Reads(<<s>>)),
                     Body(Reads(<<c2>>)), Body(<<Read1(c2), Write1(s, 0)>>))
Cyclic == Program(Body(Reads(<<s, c2>>)), Body(Reads(<<s, c1>>)),
                  Body(Reads(<<s>>)), Body(<<Peek1(c1)>>))
\* e1 destroys itself and goes on.
Ending == Program(Body(Reads(<<s>>)), Body(Reads(<<t>>)),
                  Body(<<Read1(s), Destroy1(e1), Read1(c1)>>), Body(Reads(<<c1, c2>>)))

\* c1 depends on c2 while s is 0, c2 on c1 while s is 1.
Turning == Program(Until(1, Reads(<<s, c2>>)), Until(0, Reads(<<s, c1>>)),
                   Body(Reads(<<c1>>)), Body(Reads(<<c2, t>>)))
\* c1 creates an effect that writes what c1 has read, and reads over c2.
Reentrant == Program(Early(<<Read1(s), Create1(e1)>>), Body(Reads(<<c1>>)),
                     Body(<<Write1(s, 1), Read1(c2)>>), Body(Reads(<<t>>)))

\* While c2 walks its producers, c1 creates an effect that writes what c1 has read.
Overtaken == Program(Until(0, <<Read1(t), Read1(s), Create1(e1)>>), Body(Reads(<<c1>>)),
                     Body(<<Write1(s, 0)>>), Body(Reads(<<t>>)))
\* e1 reads s, writes it and reads it again.
Rereading == Program(Body(Reads(<<s>>)), Body(Reads(<<c1>>)),
                     Body(<<Read1(s), Write1(s, 1), Read1(s)>>), Body(Reads(<<c2>>)))

MCPrograms == {Turning, Reentrant, Diamond, Dynamic, Feeding, Nesting, Peeking, Failing, Throwing,
               Forbidden, Cyclic, Ending, Overtaken, Rereading}
=============================================================================
