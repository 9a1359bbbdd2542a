------------------------------ MODULE MCEngine ------------------------------
(* Finite instances of Engine. *)
EXTENDS Engine

\* One executable of every kind, and two with one kind of trouble at most.
MCPrograms == {<<s>> : s \in Source} \cup {<<"missing", "plain">>, <<"includes", "plain">>,
                                           <<"broken", "includes">>}
MCLibraryUsers == {<<"includes">>}

\* Two tokens; one function of four, two of two, or one too short to match and another.
Nonzero == {1, 2}
MCFiles == [1 .. 4 -> Nonzero] \cup
           {<<1, a, 0, b, c>> : a, b, c \in Nonzero} \cup {<<1, 0, a, b, 2>> : a, b \in Nonzero}
MCReferences == {<<>>, <<1, 2>>, <<1, 2, 0, 2, 2>>}
MCPatterns == <<<<1, 2, 2>>, <<1>>>>
=============================================================================
