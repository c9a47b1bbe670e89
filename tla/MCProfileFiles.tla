--------------------------- MODULE MCProfileFiles ---------------------------
(* Instances of ProfileFiles for TLC. *)
EXTENDS ProfileFiles

CONSTANTS c1, c2

\* "x" is not UTF-8 and becomes U+FFFD; "long" does not fit into the buffer.
MCTexts == {"", "a", "long", "x", "fffd"}
MCAsText == [s \in MCTexts |-> IF s = "x" THEN "fffd" ELSE s]
MCSizeOf == [s \in MCTexts |-> CASE s = "" -> 0 [] s = "a" -> 2 [] s = "long" -> 9 [] OTHER -> 3]

Request(part, save, name, value) ==
    [operation |-> [part |-> part, save |-> save], name |-> name, value |-> value]
Metadata(version, text) == [version |-> {version}, text |-> {text}, lists |-> {}]
State(game, lists) == [version |-> {}, text |-> game, lists |-> lists]

\* Two files: the metadata of "a", and the state of "x", which is that of "fffd".
Loads == {Request("metadata", FALSE, "a", NoValue), Request("state", FALSE, "x", NoValue)}
MetadataSaves ==
    {Request("metadata", TRUE, "a", value) :
        value \in {Metadata(0, "a"), Metadata(1, ""), Metadata(1, "x"), Metadata(1, "long")}}
StateSaves ==
    {Request("state", TRUE, "x", State({"x"}, {})), Request("state", TRUE, "fffd", State({}, {}))}
MCRequests == Loads \union MetadataSaves \union StateSaves
ListRequests == {Request("state", TRUE, "a", State({"a"}, lists)) : lists \in {{}, {"a"}}}

Document(version, text) == [form |-> "document", version |-> version, text |-> text]
MCContents ==
    {Bare(form) : form \in {"missing", "empty", "damaged"}} \union
    {Document(v, s) : v \in {{}, {2}, {3}, {4}}, s \in {{}, {"a"}}}
MCFirstFiles ==
    {[f \in Files |-> IF f = g THEN content ELSE Bare("missing")] :
        g \in {FileOf(r) : r \in Loads} \cap Files, content \in MCContents}
MCMissing == {[f \in Files |-> Bare("missing")]}
=============================================================================
