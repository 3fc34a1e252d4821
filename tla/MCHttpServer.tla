---------------------------- MODULE MCHttpServer ----------------------------
EXTENDS HttpServer, TLC

CONSTANTS c1, c2, c3, c4

MCClients == {c1, c2, c3, c4}

\* remote address texts: one for each mask, one for none of them
MCRemotes == {<<"1", ".", "1">>, <<"2", ".", "2">>, <<"1", "1", "2">>}

\* vAllowMask lists: none, "1.*", and "?.2" with "1?1"
MCAllowMasks == {<<>>,
                 <<<<"1", ".", "*">>>>,
                 <<<<"?", ".", "2">>, <<"1", "?", "1">>>>}

=============================================================================
