------------------------------ MODULE MCStartup ------------------------------
(* TLC instance of Startup.                                                *)
EXTENDS Startup

CONSTANT MaxSections   \* the length of the longest file

MCName == {"A", "B"}

MCValue == {1, 2}

(* One account may lack its secret, the other one its key.                 *)
MCSection ==
    {section \in Account :
        /\ section.login \/ section.name = "B"
        /\ section.secret \/ section.name = "A"}
        \cup Symbols
        \cup User
        \cup [kind : {"rate_limit"}, name : Name, value : Value]
        \cup RequestTemplate \cup Unknown

MCFile ==
    {f \in BoundedSeq(MCSection, MaxSections) : \A i, j \in DOMAIN f : SameKey(f[i], f[j]) => i = j}
=============================================================================
