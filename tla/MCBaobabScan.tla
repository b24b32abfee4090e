---------------------------- MODULE MCBaobabScan ----------------------------
(***************************************************************************)
(* Two small trees, home and root with home in it: rows that go one level  *)
(* down, stay, and climb one and two levels; a file with two links in      *)
(* folders of different depth; a folder that cannot be read, one that is   *)
(* skipped, and a symbolic link.                                           *)
(***************************************************************************)
EXTENDS BaobabScan

CONSTANTS root, home, deep, deeper, wide, empty, side, locked, proc, f1, f2, f3, symlink

TreeDirs  == {root, home, deep, deeper, wide, empty, side, locked, proc}
TreeFiles == {f1, f2, f3}
TreeKids ==
  [d \in TreeDirs |->
     CASE d = root   -> <<proc, home, f3, side>>
       [] d = home   -> <<deep, f1, wide, empty>>
       [] d = deep   -> <<f2, deeper, symlink>>
       [] d = side   -> <<locked>>
       [] OTHER      -> <<>>]
TreeSize ==
  [x \in TreeDirs \cup TreeFiles |->
     CASE x = root -> 1 [] x = home -> 2 [] x = deep -> 4 [] x = deeper -> 8
       [] x = side -> 16 [] x = locked -> 32 [] x = proc -> 64
       [] x = wide -> 512 [] x = empty -> 1024
       [] x \in {f1, f2} -> 128 [] x = f3 -> 256]
TreeInode == [f \in TreeFiles |-> IF f = f3 THEN 2 ELSE 1]
TreeLinked == {f1, f2}
TreeLocations == {root, home}
=============================================================================
