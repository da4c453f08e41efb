------------------------------ MODULE XmlTree ------------------------------
(* Documents as trees, the way the agent uses libxml2: an element has a    *)
(* name, attributes, a text and child elements.  JSON documents are        *)
(* written with the same trees, a member of an object being a child that   *)
(* carries the member's name.                                              *)
EXTENDS Sequences, SequencesExt, Functions, TLC

NoAttributes == [k \in {} |-> ""]

Attribute(key, value) == key :> value

Element(tag, attributes, children) ==
  [tag |-> tag, attrs |-> attributes, text |-> "", kids |-> children]

TextElement(tag, attributes, text) ==
  [tag |-> tag, attrs |-> attributes, text |-> text, kids |-> <<>>]

getAttribute(node, name) ==
  IF name \in DOMAIN node.attrs THEN node.attrs[name] ELSE ""

MapSeq(f(_), s) == [i \in DOMAIN s |-> f(s[i])]

Children(node, tag) == SelectSeq(node.kids, LAMBDA k : k.tag = tag)

(* A later element of the same name overwrites what an earlier one set.    *)
ChildText(node, tag) ==
  LET found == Children(node, tag)
  IN  IF found = <<>> THEN "" ELSE Last(found).text

(* addAttributes: an attribute without a value is not written.             *)
addAttributes(attributes) ==
  Restrict(attributes, {k \in DOMAIN attributes : attributes[k] # ""})

(* The attributes of a node that a handler reads by name.                  *)
Read(node, names) == [k \in names |-> getAttribute(node, k)]

(* An element, or none when there is nothing to put into it.               *)
Wrapped(tag, children) ==
  IF children = <<>> THEN <<>> ELSE <<Element(tag, NoAttributes, children)>>

Simple(tag, text) == <<TextElement(tag, NoAttributes, text)>>

SimpleUnlessEmpty(tag, text) == IF text = "" THEN <<>> ELSE Simple(tag, text)

RECURSIVE Descendants(_)
Descendants(node) ==
  ToSet(node.kids) \cup UNION {Descendants(k) : k \in ToSet(node.kids)}
=============================================================================
