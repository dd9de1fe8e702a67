------------------------------ MODULE MCShell ------------------------------
(***************************************************************************)
(* Shell on files that differ in what a replacement may do to them.        *)
(***************************************************************************)
EXTENDS Shell

CONSTANTS a, b

\* A match or several, bytes that are not text before, behind and instead of it, and files
\* at the limit, and longer than it by one unit and by two.
MCFiles == {<<>>, <<a>>, <<a, a>>, <<Raw, a>>, <<b, Raw>>, <<a, Nul>>, <<a, b, Newline>>,
            <<a, Newline, Newline, Nul>>, <<Raw, b, Newline, Newline>>, <<a, b, Nul, Newline, Raw>>}
=============================================================================
