---------------------------- MODULE MCUploadRoute ----------------------------
(* Bodies of up to two parts: good and bad headers of several sizes,       *)
(* contents that nearly hold the delimiter, and every way to end.          *)
EXTENDS UploadRoute

MCHeads == {<<"F">>, <<"f">>, <<"x">>, << >>, <<"F", "r", "n", "h">>, <<"f", "r", "n", "h", "h">>}
MCContents == {<< >>, <<"d">>, <<"d", "r", "n", "-", "-", "d">>, <<"r", "n", "-", "r">>}
MCTails == {<<"-", "-">>, <<"-", "-", "r", "n">>, <<"-", "-", "r", "n", "d">>,
            << >>, <<"r">>, <<"d", "d">>, <<"-", "r", "n">>}

MCPart(head, content) == CRLF \o head \o CRLF \o CRLF \o content \o Delimiter

MCOneFile == {Marker \o MCPart(h, c) \o t : h \in MCHeads, c \in MCContents, t \in MCTails}
MCTwoParts ==
  {Marker \o MCPart(h, <<"d">>) \o MCPart(g, c) \o <<"-", "-", "r", "n">> :
     h \in {<<"F">>, <<"f">>}, g \in {<<"F">>, <<"f">>, <<"x">>}, c \in MCContents}

MCBodies ==
  MCOneFile \cup MCTwoParts
    \cup {<<"d">>, Marker, Marker \o <<"-", "-">>, Marker \o CRLF \o <<"F", "r", "n", "r">>,
          Marker \o MCPart(<<"F">>, <<"d">>) \o CRLF \o <<"F">>,
          Marker \o CRLF \o <<"F">> \o CRLF \o CRLF \o <<"d", "r", "n", "-">>}

MCRawBodies == {<<"c", "d", "e">>}

\* A field and a file, ended as the parser's test ends them.
MCGoodBodies ==
  {Marker \o MCPart(<<"f">>, <<"d">>) \o MCPart(<<"F">>, <<"d">>) \o <<"-", "-", "r", "n">>}
=============================================================================
