------------------------------- MODULE Pages -------------------------------
(***************************************************************************)
(* What the parser makes of the bytes of one html file: FileUtil::ReadFile *)
(* (src/util.hpp:15-31), ParseTitle and ParseContent (src/parser.cc:       *)
(* 123-169), in closed form.  Html goes through the same code line by line *)
(* and character by character and arrives at these definitions.            *)
(***************************************************************************)
EXTENDS RawFile

CONSTANTS
    Lt, Gt,     \* the bytes '<' and '>'
    Blank,      \* the byte ' '
    OpenTag,    \* "<title>"
    CloseTag    \* "</title>"

(* A tag is a "<", a name without brackets, a ">".                         *)
IsTag(tag) ==
    /\ tag \in Seq(Range(tag)) /\ Len(tag) > 2
    /\ tag[1] = Lt /\ tag[Len(tag)] = Gt
    /\ \A i \in 2 .. Len(tag) - 1 : tag[i] \notin {Lt, Gt}

ASSUME PageAssumption ==
    /\ Lt # Gt /\ Nl \notin {Lt, Gt} /\ Blank \notin {Lt, Gt, Nl}
    /\ IsTag(OpenTag) /\ IsTag(CloseTag)

(* Where std::string::find may find a pattern. *)
Finds(text, pattern) ==
    {i \in 1 .. Len(text) - Len(pattern) + 1 :
        SubSeq(text, i, i + Len(pattern) - 1) = pattern}

(* Mutant: a title that begins with the end of its tag.                    *)
FromBracket(text) == Min(Finds(text, OpenTag)) + Len(OpenTag) - 1

(* The lines are joined as getline returns them, without their '\n'.       *)
ReadFile(file) == Selected(file, {i \in DOMAIN file : file[i] # Nl})

TitleBegin(text) == Min(Finds(text, OpenTag)) + Len(OpenTag)
TitleEnd(text) == Min(Finds(text, CloseTag))

(* The first opening and the first closing tag make a title, if they stand *)
(* in this order.                                                          *)
HasTitle(text) ==
    /\ Finds(text, OpenTag) # {} /\ Finds(text, CloseTag) # {}
    /\ TitleBegin(text) <= TitleEnd(text)

Title(text) == SubSeq(text, TitleBegin(text), TitleEnd(text) - 1)

(* Between a '>' and the next '<' is text; what comes before the first '>' *)
(* is none, and a '>' inside is part of it.                                *)
AfterGt(text, pos) ==
    \E g \in 1 .. pos : text[g] = Gt /\ \A i \in g .. pos : text[i] # Lt

Body(text) == {i \in DOMAIN text : text[i] # Lt /\ AfterGt(text, i - 1)}

Content(text) == Selected(text, Body(text))
=============================================================================
