--------------------------------- MODULE Values ---------------------------------
(***************************************************************************)
(* The values of one CMS entry and the three transformers that walk them   *)
(* along the fields of the entry's model: fixBrokenStorageKeys,            *)
(* transformRichText and replaceFileUrls, over visitFields                 *)
(* (src/src/transformers/cms).                                             *)
(*                                                                         *)
(* The nested values of an entry are the set of their nodes                *)
(* [path, format, host]: the storage keys that lead to the node, how its   *)
(* content is stored, and which host its file URLs name.  An object, a     *)
(* dynamic zone and an item of one are nodes as well, and an item's key is *)
(* its _templateId.  A list of objects or items stands for one of them:    *)
(* all are treated alike.  A list of rich texts is one node of the format  *)
(* "rootless".  A field of a model is [path, type, id]; its path holds the *)
(* declared storage ids, and the key of its value should be <<type, id>>.  *)
(* No field declares the key that is the right one of a sibling.           *)
(***************************************************************************)
EXTENDS Naturals, Sequences

\* getCorrectStorageId: type@id.
CorrectKey(field) == <<field.type, field.id>>

Parent(path) == SubSeq(path, 1, Len(path) - 1)

Holds(values, path) == \E v \in values : v.path = path

\* Values are trees: what leads to a node is a node.
IsNode(v) ==
  /\ v = [path |-> v.path, format |-> v.format, host |-> v.host]
  /\ v.path \in Seq({v.path[n] : n \in DOMAIN v.path})

IsValues(values) ==
  \A v \in values : IsNode(v) /\ \A n \in 1..Len(v.path) : Holds(values, SubSeq(v.path, 1, n))

\* Fault: only the fields at the top are visited.
VisitedTop(values, fields) == {f \in fields : Len(f.path) = 1 /\ Holds(values, f.path)}

\* visitFields calls back for the fields whose value is there under the declared
\* storage id, and goes into an object or item only along such fields.
Visited(values, fields) ==
  {f \in fields : \A n \in 1..Len(f.path) : Holds(values, SubSeq(f.path, 1, n))}

\* The field visited for a node, if any.
FieldOf(values, fields, node) ==
  {f \in Visited(values, fields) : f.path = node.path}

-----------------------------------------------------------------------------
(* fixBrokenStorageKeys *)

\* The place fixAllKeys moves the value of f to.  A value that is visited is
\* there under the declared id, so that the second candidate, the fieldId, is
\* never the one that is moved.
RightPath(f) == Append(Parent(f.path), CorrectKey(f))

Moves(values, f) ==
  /\ f.type # "fragment-uuid"
  /\ f.path # RightPath(f)
  /\ ~ Holds(values, RightPath(f))

Moved(values, fields) == {f \in Visited(values, fields) : Moves(values, f)}

\* Where the node at a path is afterwards: a value that moves takes along what is
\* below it.
FixedPath(values, fields, path) ==
  LET At(n) == {f \in Moved(values, fields) : f.path = SubSeq(path, 1, n)}
  IN [n \in 1..Len(path) |-> IF At(n) = {} THEN path[n] ELSE CorrectKey(CHOOSE f \in At(n) : TRUE)]

fixBrokenStorageKeys(values, fields) ==
  {[v EXCEPT !.path = FixedPath(values, fields, @)] : v \in values}

-----------------------------------------------------------------------------
(* transformRichText and replaceFileUrls *)

\* The formats.  Of what is stored compressed, "lexical" is an editor state of v5, with a
\* root; "unrenderable" is one that the renderer throws over; "rendered" is the state and
\* HTML of v6; "rootless" is all else, a list or nothing.  "raw" is the state and HTML of
\* v6, not compressed, and "text" any other value.
IsOfType(values, fields, node, type) ==
  \E f \in FieldOf(values, fields, node) : f.type = type

\* What has no root is left as it is, and no one is told.
transformRichText(values, fields) ==
  {IF v.format = "lexical" /\ IsOfType(values, fields, v, "rich-text")
   THEN [v EXCEPT !.format = "rendered"] ELSE v : v \in values}

\* The storage ids it warns of: their values are left as they are as well.
Unrendered(values, fields) ==
  {v.path[Len(v.path)] : v \in {u \in values :
     u.format = "unrenderable" /\ IsOfType(values, fields, u, "rich-text")}}

\* The values with a root that a model declares as rich texts, visited or not.
LexicalTexts(values, fields) ==
  {v \in values : /\ v.format \in {"lexical", "unrenderable"}
                  /\ \E f \in fields : f.type = "rich-text" /\ f.path = v.path}

\* visitFieldUrls.  Of a rich text only the parts of the new format are looked
\* at, compressed or not.
HasUrls(values, fields, node) ==
  \/ IsOfType(values, fields, node, "file")
  \/ /\ IsOfType(values, fields, node, "rich-text")
     /\ node.format \in {"rendered", "raw"}

replaceFileUrls(values, fields) ==
  {IF v.host = "source" /\ HasUrls(values, fields, v)
   THEN [v EXCEPT !.host = "target"] ELSE v : v \in values}
==============================================================================
