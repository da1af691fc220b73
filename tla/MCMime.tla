-------------------------------- MODULE MCMime --------------------------------
(* A small instance of Mime for TLC: containers named "a" and "a;".        *)
EXTENDS Mime

Bnd(name) == <<"-", "-">> \o name \o <<"nl">>
End2(name) == <<"-", "-">> \o name \o <<"-", "-", "ws", "nl">>
Delims == {Bnd(<<"a">>), Bnd(<<"a", ";">>), End2(<<"a">>), End2(<<"a", ";">>), <<"-", "-", "a", "-", "nl">>}

MCFields ==
  {<<>>,
   <<<<"cte", "ws", "qp", "nl">>, <<"ct", "ws", "text", "/html", "nl">>>>,
   <<<<"ct", "ws", "multipart", ";", "nl", "ws", "boundary=", "a", ";", "x", "nl">>>>,
   <<<<"ct", "multipart", ";", "boundary=", "dq", "a", ";", "dq", "nl">>, <<"cte", "x", "nl">>>>}
MCHeaderLines == Delims \cup
  {<<"nl">>, <<"x", "nl">>, <<"cte", "ws", "qp", "nl">>, <<"cte", "b64", "nl">>,
   <<"ct", "ws", "nl">>, <<"ws", "text", "/html", ";", "charset=", "dq", "iso-8859-", "2", "dq", "nl">>,
   <<"ct", "ws", "text", ";", "x", ";", "charset=", "iso-8859-", "1", "nl">>, <<"ct", "x", "nl">>,
   <<"ct", "ws", "multipart", ";", "nl">>, <<"ws", "boundary=", "dq", "a", ";", "dq", ";", "nl">>}
MCTextLines == Delims \cup
  {<<"nl">>, <<"x", "x", "nl">>, <<"x", "=", "4", "1", "nl">>, <<"4", "=", "nl">>, <<"x", "=", "4", "nl">>,
   <<"1", "x", "2", "4", "x", "2", "nl">>, <<"x", "x", "=", "=", "nl">>}
MCLastPieces == {<<>>, <<"x">>, <<"-", "-", "a", ";">>, <<"-", "-", "a", "-">>, <<"=">>}
=============================================================================
