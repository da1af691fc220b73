------------------------------- MODULE MCFuzzy -------------------------------
(* Small instances of Fuzzy for TLC: the alphabets of the kinds of bodies. *)
EXTENDS Fuzzy

MCGreetings == {<<"d", "a">>}
MCLangs     == {1, 2}
MCDict      == <<{<<"a">>, <<"a", "a", "a", "a">>, <<"h", "t", "t", "p">>}, {<<"a">>, <<"a", "a">>}>>
MCCsetOf    == <<"any", "8859-2">>

(* hosts: what a URL holds; links: URLs after lines that fill the buffer;  *)
(* list: one URL after another; words: plain text; tags: HTML; opens: text *)
(* that turns out to be HTML; from: lines that start like ">From", here    *)
(* ">hm".                                                                  *)
MCFromSeq == <<"nl", ">", "h", "m">>

Abc(plainly, broken, inUrl) == [text |-> plainly, break |-> broken, host |-> inUrl, follow |-> "none"]
MCAlphabet ==
  [hosts |-> Abc({"nl", "h", "="}, {}, {"a", ".", "@", ":", "/", "nl", "&", "dq", "hi", "1"}),
   links |-> Abc({"a", "d", "nl", "h"}, {}, {"a", ".", "/", "nl"}),
   list  |-> Abc({"sp", "h"}, {}, {"a", "sp"}),
   words |-> [Abc({"a", "sp", "1"}, {}, {}) EXCEPT !.follow = "words"],
   from  |-> [Abc(ToSet(MCFromSeq) \cup {"sp", "="}, {}, {}) EXCEPT !.follow = "body"],
   tags  |-> Abc({"a", "sp", "<", ">", "&", "!", "-", ";"}, {}, {}),
   opens |-> Abc({"<", "h", "m", "l", "sp"}, {"m"}, {})]

Entity(ct, cset) == [ct |-> ct, cset |-> cset]
MCEntities ==
  [hosts |-> {Entity("binary", "8859-1")}, links |-> {Entity("binary", "8859-1")},
   list  |-> {Entity("text", "8859-1")}, words |-> {Entity("text", "8859-1"), Entity("text", "8859-2")},
   tags  |-> {Entity("html", "8859-1"), Entity("text", "8859-2")}, opens |-> {Entity("text", "8859-1")},
   from  |-> {Entity("binary", "8859-1")}]
MCMaxBytes == [hosts |-> 13, links |-> 13, list |-> 29, words |-> 8, tags |-> 7, opens |-> 8, from |-> 6]
=============================================================================
