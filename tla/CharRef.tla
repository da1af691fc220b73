------------------------------- MODULE CharRef -------------------------------
(***************************************************************************)
(* HTML character references (dcc/cref.go, cref_lookup.go) as the fuzzy    *)
(* checksums decode them, byte by byte, and the classes of bytes that both *)
(* checksums distinguish.                                                  *)
(*                                                                         *)
(* A byte stands for its class: letters are lower case, "a" is any letter  *)
(* that no prefix names, "1" a digit, "hi" a byte from 0xc0 on, "cont" one *)
(* below it, "nb" 0xa0, "nul" the zero byte, "%" other punctuation.        *)
(***************************************************************************)

Letters == {"a", "d", "h", "l", "m", "p", "s", "t", "x"}
Digits  == {"1"}
Hex     == Digits \cup {"a", "d"}
Bytes   == Letters \cup Digits \cup
           {"nl", "sp", "dq", "sq", "<", ">", "=", "&", "#", ";", ":", "/", ".", "@", "!", "-",
            "hi", "cont", "nb", "nul", "%"}

RefStates == {"idle", "start", "num", "dec", "hex", "name"}

(* ckCref.step on byte c: the state after it; whether a character is done, *)
(* and which; and whether the byte was not part of the reference, so that  *)
(* it is read again.  The value of a number and the character of a name    *)
(* (lookupCref) are d, any byte, chosen when the reference ends.           *)
RefStep(st, c, d) ==
  LET More(next) == [st |-> next, done |-> FALSE, c |-> c, again |-> FALSE]
      Done(r, stop) == [st |-> "idle", done |-> TRUE, c |-> r, again |-> stop]
      Until(part) == IF c \in part THEN More(st) ELSE Done(d, c # ";")
  IN  CASE st = "idle"  -> More("start")
        [] st = "start" -> More(IF c = "#" THEN "num" ELSE IF c \in Letters THEN "name" ELSE "idle")
        [] st = "num"   -> IF c = "x" THEN More("hex")
                           ELSE IF c \in Digits THEN More("dec") ELSE Done("#", TRUE)
        [] st = "dec"   -> Until(Digits)
        [] st = "hex"   -> Until(Hex)
        [] st = "name"  -> Until(Letters \cup Digits)

(* The bytes a reference may stand for when c is read in state st.         *)
Decodes(st, Decoded) == IF st \in {"dec", "hex", "name"} THEN Decoded ELSE {"nul"}
=============================================================================
