---------------------------- MODULE MCHttpServer ----------------------------
(* HttpServer with three clients, a pool of two threads and a raw.txt that *)
(* is missing, empty, or has one or two documents.                         *)
EXTENDS HttpServer, MCTexts

MCUrl == <<".">>
MCDoc1 == <<<<"b">>, <<"T">>, MCUrl>>
MCDoc2 == <<<<>>, <<"k", "t">>, MCUrl>>
MCShort == <<<<"b">>, MCUrl>>

MCInputs == {NoFile, <<>>, <<MCDoc1>>, <<MCDoc1, MCDoc2>>, <<MCDoc1, MCShort>>}
MCNoInput == {NoFile}
MCQueries == {<<"k">>, <<"T", "t">>}
=============================================================================
