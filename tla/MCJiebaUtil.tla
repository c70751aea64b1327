---------------------------- MODULE MCJiebaUtil ----------------------------
(* JiebaUtil with three threads that all come cold to GetInstance and two  *)
(* stop words.                                                             *)
EXTENDS JiebaUtil

MCThread == {"main", "w1", "w2"}
MCStopWords == {"the", "is"}
=============================================================================
