---------------------------- MODULE MCAuthedFetch ----------------------------
\* Small instances of AuthedFetch for TLC.
EXTENDS AuthedFetch

\* Every form and target, and bodies that can be sent once in requests of the page's own.
MCInputs == {in \in AllInputs : in.body = "once" => in.target = Relative}

=============================================================================
