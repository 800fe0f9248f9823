------------------------------- MODULE DomTree -------------------------------
(***************************************************************************)
(* The document of the browser client (lib/typescript/src/apply.ts): what  *)
(* each TREE opcode and SET_TEXT does to it, as operators on a document, a *)
(* function from the ids of byId to elements.                              *)
(*                                                                         *)
(* An element has the component its shell was made for, a text, Blank if   *)
(* it shows none, and the elements inside it.  byId keeps what is taken    *)
(* out of the page along with an element that is deleted; whether such an  *)
(* element lies in a detached one or in none makes no difference.  Shells  *)
(* of controls, with their own labels and inputs, are left out.            *)
(***************************************************************************)
EXTENDS Integers, Sequences, SequencesExt

CONSTANT Blank      \* no text, or the empty one

Opcode(cmd, id, arg, child, index) ==
  [cmd |-> cmd, id |-> id, arg |-> arg, child |-> child, index |-> index]

CreateOp(id, component) == Opcode("CREATE_NODE", id, component, 0, 0)
DeleteOp(id) == Opcode("DELETE_NODE", id, Blank, 0, 0)
InsertOp(id, child, index) == Opcode("INSERT_CHILD", id, Blank, child, index)
RemoveOp(id, child) == Opcode("REMOVE_CHILD", id, Blank, child, 0)
TextOp(id, text) == Opcode("SET_TEXT", id, text, 0, 0)

Known(doc, id) == id \in DOMAIN doc

\* parentNode.removeChild, wherever the element is: it is inside one at most, once.
Detached(doc, id) ==
  [i \in DOMAIN doc |-> [doc[i] EXCEPT !.inside = RemoveFirst(@, id)]]

\* An id that byId has keeps its element: its shell, text and place.
CreateNode(doc, id, component) ==
  [i \in DOMAIN doc \union {id} |->
     IF i \in DOMAIN doc THEN doc[i]
     ELSE [shell |-> component, text |-> Blank, inside |-> <<>>]]

DeleteNode(doc, id) ==
  [i \in DOMAIN doc \ {id} |-> Detached(doc, id)[i]]

\* Node.contains: an element contains what lies at any depth in it.
Encloses(doc, id, child) ==
  LET within[i \in DOMAIN doc] ==
        ToSet(doc[i].inside) \union UNION {within[c] : c \in ToSet(doc[i].inside)}
  IN  child \in within[id]

InsertAtIndexOne(list, c, k) ==             \* seeded fault: counted from 1
  IF k - 1 \in 0 .. Len(list) - 1 THEN InsertAt(list, k, c) ELSE Append(list, c)

\* insertAt: before the element that has the index, or at the end.
InsertedAt(list, c, k) ==
  IF k \in 0 .. Len(list) - 1 THEN InsertAt(list, k + 1, c) ELSE Append(list, c)

\* An element that is there already stays where it is.
InsertChild(doc, id, child, index) ==
  IF ~Known(doc, id) \/ ~Known(doc, child) \/ Encloses(doc, id, child) THEN doc
  ELSE [Detached(doc, child) EXCEPT ![id].inside = InsertedAt(@, child, index)]

\* setNodeText on an element without inputs and labels: textContent, which
\* takes out what is inside.
WriteText(doc, id, text) ==
  IF ~Known(doc, id) THEN doc
  ELSE [doc EXCEPT ![id] = [shell |-> @.shell, text |-> text, inside |-> <<>>]]

Apply(doc, op) ==
  CASE op.cmd = "CREATE_NODE" -> CreateNode(doc, op.id, op.arg)
    [] op.cmd = "DELETE_NODE" -> DeleteNode(doc, op.id)
    [] op.cmd = "INSERT_CHILD" -> InsertChild(doc, op.id, op.child, op.index)
    [] op.cmd = "REMOVE_CHILD" -> Detached(doc, op.child)
    [] op.cmd = "SET_TEXT" -> WriteText(doc, op.id, op.arg)

\* applyBatch.
ApplyFrame(doc, frame) == FoldLeft(Apply, doc, frame)
=============================================================================
