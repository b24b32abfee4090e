-------------------------- MODULE MCLogviewManager --------------------------
(* Values for the constants of LogviewManager that are not constants of a  *)
(* configuration file.                                                     *)
EXTENDS LogviewManager

Look(invisible, foreground) ==
  [invisible |-> <<invisible>>, foreground |-> foreground, background |-> <<>>]

MCTyped  == {<<>>, <<"a">>, <<"b">>, <<"i">>, <<"a", ":">>}
MCRegexes == {<<"x">>}
MCLooks  == {Look("0", <<"r">>)}
MCLoaded == {[name |-> <<"a">>, regex |-> <<"x", ":">>, look |-> Look("1", <<>>)]}
MCCommandLines == {<<2, 2>>}
MCBuiltIn == {<<"i">>}
MCInvisibleFilter == <<"i">>

=============================================================================
