----------------------------- MODULE MCNsshCtl -----------------------------
EXTENDS NsshCtl, TLC

CONSTANTS dns, pf, rip, ftp, plain, empty, long, wrong, cut

MCDaemons == <<dns, pf, rip, ftp>>
T(lines, ended) == [lines |-> lines, ended |-> ended]
\* What a user may leave behind: a good file, one the service refuses, one without lines, and
\* one with an empty line, a line that is too long, and no newline at the end.
MCTexts == {T(<<plain, plain>>, TRUE), T(<<wrong>>, TRUE), T(<<>>, TRUE),
            T(<<empty, long, plain>>, FALSE)}
MCSymmetry == Permutations(Sessions)
=============================================================================
