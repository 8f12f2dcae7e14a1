--------------------------- MODULE MCToolExecutor ---------------------------
EXTENDS ToolExecutor

\* A search of a directory, an edit of a file in it and a read of that file:
\* the edit conflicts with both others.
AllKeys == {"grep", "edit", "read"}

Declared ==
    [k \in AllKeys |->
       CASE k = "grep" -> {File(FALSE, <<"dir">>, TRUE)}
         [] k = "edit" -> {File(TRUE, <<"dir", "file">>, FALSE)}
         [] k = "read" -> {File(FALSE, <<"dir", "file">>, FALSE)}]
=============================================================================
