----------------------------- MODULE MCFrontend -----------------------------
(* Frontend with words that the server finds one or two results or none    *)
(* for, and words with a character that a URL takes for something else.    *)
EXTENDS Frontend

MCChar == {"a", "b", "#", "&", "+", " "}
MCItem == {"x", "y", "z"}
MCDefault == <<"a", "b">>
MCWords == {<<>>, MCDefault, <<"a">>, <<"b">>, <<"b", "#">>, <<"&", "b">>, <<"a", "+">>}

MCAnswer(word) ==
    CASE word = <<"a">>      -> <<"x">>
      [] word = <<"b">>      -> <<"y", "x">>
      [] word = <<"a", " ">> -> <<"z">>
      [] OTHER               -> <<>>
=============================================================================
