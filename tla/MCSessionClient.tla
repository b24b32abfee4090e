-------------------------- MODULE MCSessionClient --------------------------
(* A number and a regular expression, which is used when it is empty too;  *)
(* a folder that is a symbolic link, which no quick search looks in.       *)
EXTENDS SessionClient

MCConstraints == {"sizemore", "regex"}
MCKind == [c \in MCConstraints |-> IF c = "sizemore" THEN "number" ELSE "regex"]
MCTexts == {"", "a"}
MCNumbers == {0, 4194305}
MCFolders == {"home", "link"}
MCQuickExcluded == {{}}
MCScanExcluded == {{"home"}}
=============================================================================
