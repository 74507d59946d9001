---------------------------- MODULE MCDocuments ----------------------------
EXTENDS Documents

MCAlphabet == <<"A", "B", "C", "D", "E", "F", "G", "H">>

Text(Symbols, n) == UNION {[1 .. k -> Symbols] : k \in 0 .. n}
Texts == Text({"a", "_", "&", "amp;", "<", ">", "'", "\"", "]]"}, 2)
Contents == Text({"a", "&", "<", "]]"}, 2)
Option(S) == {None} \cup {Some(v) : v \in S}
Numbers == {0, 9, 10, MaxU32, MaxU32 + 1}

Profile(uri, encoding, content) == [uri |-> uri, encoding |-> encoding, content |-> content]
Blob(status, data) == [kind |-> "blob", status |-> status, data |-> data]
Plain == Profile(<<"a">>, "none", None)
Profiles ==
    {Profile(uri, "none", None) : uri \in Texts}
    \cup {Profile(<<"a">>, e, c) : e \in {"none", "base64"}, c \in Option(Contents)}
    \cup {Profile(<<"a">>, "none", Some(BlobToXml(Blob(Some(<<"complete">>)[1], <<1>>))))}

MCMessages ==
    {[kind |-> "start", number |-> n, server_name |-> name, profiles |-> <<Plain>>] :
        n \in Numbers, name \in Option(Texts)}
    \cup {[kind |-> "start", number |-> 1, server_name |-> None, profiles |-> <<p, Plain>>] :
        p \in Profiles}
    \cup {[kind |-> "close", number |-> n, code |-> 20, lang |-> lang, text |-> text] :
        n \in Numbers, lang \in Option({<<"a">>, <<"'">>}), text \in Option(Texts)}
    \cup {[kind |-> "error", code |-> 20, lang |-> None, text |-> text] : text \in Option(Texts)}
    \cup {[kind |-> "profile", profile |-> p] : p \in Profiles}
    \cup {[kind |-> "ok"]}
    \cup {[kind |-> "greeting", profiles |-> uris, features |-> f, localize |-> None] :
        uris \in {<<>>} \cup {<<u, <<"a">>>> : u \in Texts}, f \in Option({<<"&">>})}
    \cup {Blob(st, data) : st \in {None} \cup {<<w>> : w \in Statuses},
                           data \in Text({0, 5, 15}, 4)}
    \cup {[kind |-> "payload", data |-> d] : d \in Text({"a", "nl", ":"}, 4)}
\* content that holds the closing delimiter of a CDATA section
MCDelimiters ==
    {[kind |-> "profile", profile |-> Profile(<<"a">>, "none", Some(c))] :
        c \in Text({"a", "]]", ">"}, 3)}
=============================================================================
