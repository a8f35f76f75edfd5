--------------------------- MODULE MCAuthoringForms ---------------------------
EXTENDS AuthoringForms

T(n, c, x) == [name |-> n, content |-> c, extra |-> x]

\* Nothing, a tool with unknown fields, another one, a name twice, no JSON.
MCTexts ==
    {<<>>, <<T("read", 0, TRUE)>>, <<T("write", 1, FALSE)>>,
     <<T("read", 1, FALSE), T("read", 0, TRUE)>>, Malformed}

MCListings ==
    {<<>>, <<T("read", 1, FALSE)>>, <<T("write", 1, FALSE), T("read", 0, FALSE)>>,
     <<T("read", 0, FALSE), T("read", 1, FALSE)>>}

=============================================================================
