------------------------------- MODULE MCDoctor -------------------------------
\* Small instances of Doctor for TLC.
EXTENDS Doctor

CONSTANTS notes, other

MCItemLists == {<<>>, <<notes>>, <<notes, other>>}
MCGroupLists == {<<>>, <<notes>>}

=============================================================================
