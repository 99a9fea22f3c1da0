----------------------------- MODULE BindingPlan -----------------------------
(***************************************************************************)
(* Compilation of a request DTO into one shadow per HTTP source            *)
(* (binder.go, compilePlan and what it calls). A DTO is the set of its     *)
(* exported named fields; the embedded structs around a field, outermost   *)
(* first, are its path. Nested types are reduced to the string mappings    *)
(* checkMappingType accepts them for.                                      *)
(* Mutant... definitions are faults the property they name detects.        *)
(***************************************************************************)
EXTENDS Naturals, Sequences

CONSTANTS Dtos,    \* the request types of the application
          Names,   \* names of fields and of embedded types
          Msgpack  \* MessagePack was compiled in

Sources == {"uri", "header", "query", "form", "file", "body"}
BodyTags == {"json", "xml", "yaml", "toml", "codec", "bson"}
StringTags == {"uri", "header", "form"}
Tags == StringTags \cup BodyTags
RejectedTags == {"query", "protobuf", "msgpack"}

EmbeddingType == [ name    : Names,
                   tags    : SUBSET (Tags \cup RejectedTags),
                   ignored : SUBSET Tags,   \* tags with the value "-"
                   pointer : BOOLEAN ]

FieldType == [ name     : Names,
               tags     : SUBSET (Tags \cup RejectedTags),
               type     : {"plain", "file", "lookalike", "nested file"},
               mappable : SUBSET StringTags,
               path     : Seq(EmbeddingType) ]

ASSUME PlanAssumption ==
    /\ \A dto \in Dtos : dto \subseteq FieldType
    /\ Msgpack \in BOOLEAN

-----------------------------------------------------------------------------
(* sourceOf *)

\* Body tags take precedence over form; uri and header stay exclusive.
Claims(f) == (f.tags \cap {"uri", "header"})
             \cup (IF f.tags \cap BodyTags # {} THEN {"body"} ELSE f.tags \cap {"form"})

NoSource(f) == \/ f.tags \cap RejectedTags # {}
               \/ \E s, t \in Claims(f) : s # t
               \/ Claims(f) # {} /\ f.type \in {"lookalike", "nested file"}
               \/ Claims(f) # {} /\ f.type = "file" /\ Claims(f) # {"form"}

\* IsolatedSources: the query shadow takes fields of every source.
MutantQueryFields(f) == f.type # "file" /\ f.tags # {}

\* Form fields, those with a body tag included, are read from the query as well.
IsQueryField(f) == f.type # "file" /\ "form" \in f.tags

BoundFrom(f, s) == \/ s \in Claims(f) /\ f.type # "file"
                   \/ s = "file" /\ f.type = "file" /\ Claims(f) = {"form"}
                   \/ s = "query" /\ IsQueryField(f)

\* checkFieldMapping: the tag of a string mapping must fit the field's type.
StringTag(s) == IF s = "query" THEN "form" ELSE s
Unmappable(f, s) == BoundFrom(f, s) /\ s \notin {"file", "body"} /\ StringTag(s) \notin f.mappable

-----------------------------------------------------------------------------
(* collectShadowFields *)

Ignores(embedding, s) ==
    IF s = "body" THEN embedding.ignored \cap BodyTags # {}
    ELSE IF s \in {"uri", "header"} THEN s \in embedding.ignored
    ELSE "form" \in embedding.ignored

\* The collection for source s enters the first n embedded structs around f.
Enters(f, n, s) == \A i \in 1..n : ~Ignores(f.path[i], s)

BadPath(f, s) ==
    \E i \in DOMAIN f.path :
        /\ Enters(f, i - 1, s)
        /\ f.path[i].tags # {} \/ (f.path[i].pointer /\ Enters(f, i, s))

Shadow(dto, s) == {f \in dto : BoundFrom(f, s) /\ Enters(f, Len(f.path), s)}

-----------------------------------------------------------------------------
(* bodyFormatsOf and compilePlan *)

AllFormats == (BodyTags \cup {"form"}) \ (IF Msgpack THEN {} ELSE {"codec"})

\* DeclaredFormatOnly: an encoding one body field declares is enough.
MutantAnyFormat(dto) == {t \in AllFormats : \E f \in Shadow(dto, "body") : t \in f.tags}

\* The encodings every body field declares.
Formats(dto) == {t \in AllFormats : \A f \in Shadow(dto, "body") : t \in f.tags}

CompileFails(dto) ==
    \/ \E f \in dto, s \in Sources :
          \/ BadPath(f, s)
          \/ Enters(f, Len(f.path), s) /\ (NoSource(f) \/ Unmappable(f, s))
    \/ \E s \in Sources : \E f, g \in Shadow(dto, s) : f # g /\ f.name = g.name
    \/ Shadow(dto, "body") # {} /\ Formats(dto) = {}
=============================================================================
