------------------------------- MODULE MCBinder -------------------------------
(* Instances of Binder for TLC. *)
EXTENDS Binder

Field(name, tags) == [name |-> name, tags |-> tags, type |-> "plain", mappable |-> StringTags, path |-> <<>>]
File(name, tags) == [Field(name, tags) EXCEPT !.type = "file"]
Within(f, embedding) == [f EXCEPT !.path = <<embedding>>]
Embedding == [name |-> "E", tags |-> {}, ignored |-> {}, pointer |-> FALSE]
Ignoring == [Embedding EXCEPT !.ignored = {"form"}]

\* Every kind of field alone, beside others, in embedded structs, some of which
\* ignore one of its tags; and layouts that are refused: an anonymous pointer, one
\* name twice (in two like embedded structs, too), a type no tag fits, two sources,
\* no common encoding.
MCDtos ==
    { {Within(Field("a", {"uri"}), Embedding), Field("b", {"header"}), Field("c", {"form"})},
      {Field("a", {"uri"}), Field("b", {"json", "form"}), Field("c", {"xml", "json", "form"})},
      {Field("a", {"toml", "form"}), Field("b", {"form"}), Field("c", {})},
      {Within(Field("a", {"form"}), Ignoring), File("b", {"form"}), Field("c", {"header"})},
      {Field("a", {"json"})},
      {Within(Field("a", {"json", "form"}), Ignoring)},
      {Within(Field("a", {"form"}), [Embedding EXCEPT !.pointer = TRUE])},
      {Field("a", {"form"}), Within(Field("a", {"form"}), Embedding)},
      {Within(Field("a", {"form"}), Embedding), Within(Field("a", {"form"}), [Embedding EXCEPT !.name = "F"])},
      {[Field("a", {"form"}) EXCEPT !.mappable = {}]},
      {Field("a", {"uri", "json"})},
      {Field("a", {"json"}), Field("b", {"codec"})} }

\* All places good, but one of them absent or bad.
MCInputs == {[p \in Places |-> IF p = q THEN v ELSE "good"] : q \in Places, v \in {"absent", "good", "bad"}}

MCRequests ==
    [ readOnly : BOOLEAN, type : {"none", "many", "json", "xml", "toml", "urlencoded", "multipart"},
      content : {"none", "one", "many", "malformed", "over"}, syntax : BOOLEAN, input : MCInputs ]
=============================================================================
