------------------------------ MODULE MCNotesPage ------------------------------
\* Small instances of NotesPage for TLC.
EXTENDS NotesPage, TLC

CONSTANTS page, api

MCRequests == 1..(1 + 2 * MaxOperations)

\* Every operation: ids of a note, that need encoding, that get lost, and the empty one;
\* masks that name a field, and that do not; parameters left out; a root URL set on Api that
\* leads nowhere, or elsewhere.
MCFieldNames == {<<Ch("f")>>}
MCScriptCalls ==
    {[by |-> "script", op |-> "list", root |-> "",
      params |-> PageSize :> <<Ch("2")>> @@ PageToken :> <<Ch("="), Ch("a")>> @@ ShowDeleted :> Null]}
    \cup {[by |-> "script", op |-> "get", root |-> root, params |-> [id |-> NoteIdOf(1), mask |-> <<Ch("f"), Ch(",")>>]] :
            root \in {Null, Unparseable, api}}
    \cup {[by |-> "script", op |-> "update", root |-> Null, params |-> [id |-> <<Ch("a"), Ch("/"), Ch(",")>>,
           mask |-> <<<<Ch("f")>>, <<Ch("g"), Ch(",")>>>>, body |-> [kind |-> "plain", note |-> 1]]]}
    \cup {[by |-> "script", op |-> "create", root |-> Null, params |-> [body |-> [kind |-> "plain", note |-> 3]]]}
    \cup {[by |-> "script", op |-> "delete", root |-> Null, params |-> [id |-> id]] :
            id \in {NoteIdOf(1), <<>>, <<Ch("."), Ch(".")>>}}

=============================================================================
