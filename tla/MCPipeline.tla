----------------------------- MODULE MCPipeline -----------------------------
(* Pipeline on every set of at most MaxFiles of MCFiles: pages with a word *)
(* or two, one of them on two lines, pages without a title and with its    *)
(* tags in the wrong order, a page that does not open, a file that is no   *)
(* html, a directory whose name ends in .html.  MCEmptyPage has an empty   *)
(* title and no text.                                                      *)
EXTENDS Pipeline, MCTexts

CONSTANT MaxFiles

MCOpenTag == <<Lt, "title", Gt>>
MCCloseTag == <<Lt, "/title", Gt>>

File(name, regular, html, readable, bytes) ==
    [path |-> <<".", name>>, regular |-> regular, html |-> html,
     readable |-> readable, bytes |-> bytes]

Page(name, title, text) ==
    File(name, TRUE, TRUE, TRUE, MCOpenTag \o title \o MCCloseTag \o text)

MCEmptyPage == Page(".", <<>>, <<Nl>>)

MCFiles ==
    {Page("b", <<"b">>, <<Nl, "T", Nl>>),
     Page("k", <<>>, <<"b">>),
     MCEmptyPage,
     File("no title", TRUE, TRUE, TRUE, <<Gt, "b">> \o MCCloseTag),
     File("wrong order", TRUE, TRUE, TRUE, MCCloseTag \o <<"b">> \o MCOpenTag),
     File("locked", TRUE, TRUE, FALSE, <<>>),
     File("css", TRUE, FALSE, TRUE, MCOpenTag \o MCCloseTag),
     File("dir", FALSE, TRUE, TRUE, <<>>)}

MCByte ==
    {Sep, Nl, Blank} \cup UNION {Range(file.path) \cup Range(file.bytes) : file \in MCFiles}

MCTrees == {NoRoot} \cup {files \in SUBSET MCFiles : Cardinality(files) <= MaxFiles}
MCEmptyPages == {{MCEmptyPage}}
MCOnePage == {{Page("b", <<"b">>, <<>>)}}
MCInputs == {NoFile}
MCJunk == {<<>>}
MCRootPath == <<".">>
MCUrlHead == <<".">>

(* The pages are such as the theorems about Pipeline are stated for. *)
ASSUME PagesArePlain == PlainPages
=============================================================================
