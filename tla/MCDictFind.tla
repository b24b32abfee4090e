---------------------------- MODULE MCDictFind ----------------------------
(***************************************************************************)
(* Two letters, one of them with and without an accent and in capitals;    *)
(* definitions with links in a word and over several words.                *)
(***************************************************************************)
EXTENDS DictFind

CONSTANT accent

FindFolded ==
  [c \in {"a", "A", "b", "a'", Newline, Space, From, Failure, LinkOpens, LinkCloses, Slash} |->
     CASE c = "A"  -> <<"a">>
       [] c = "a'" -> <<"a", accent>>
       [] OTHER    -> <<c>>]

FindTitle == <<"a">>

FindBodies ==
  {<< <<LinkOpens, "A", LinkCloses, "b">>, <<>>, <<Slash, "b", Slash>>, <<"b", "nl", "a">> >>,
   << <<"a'", "a">>, <<LinkOpens, "b">>, <<"a", LinkCloses>> >>,
   << <<LinkOpens, "a">>, <<"a", LinkCloses>>, <<"b">>, <<LinkOpens, "b">> >>}

FindPatterns == {<<>>, <<"a">>, <<"a'">>, <<"b", "nl", "a">>}
=============================================================================
