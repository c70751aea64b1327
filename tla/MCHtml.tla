------------------------------- MODULE MCHtml -------------------------------
(* Html on every file made of at most MaxPieces of: a letter, a bracket, a *)
(* line end, one of the two title tags.  The names of the tags are one     *)
(* symbol each.                                                            *)
EXTENDS Html

CONSTANT MaxPieces

MCOpenTag == <<Lt, "title", Gt>>
MCCloseTag == <<Lt, "/title", Gt>>
MCPieces == {<<"a">>, <<Lt>>, <<Gt>>, <<Nl>>, MCOpenTag, MCCloseTag}
MCFiles ==
    UNION {{FlattenSeq(pieces) : pieces \in [1 .. n -> MCPieces]} : n \in 0 .. MaxPieces}
=============================================================================
