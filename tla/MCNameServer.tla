------------------------------ MODULE MCNameServer ------------------------------
(* NameServer with six boot images made of: two multi-instance fats, one of which *)
(* asks for vfs before it registers while the other may fail; three drivers that   *)
(* register as vfs, the second in vain and the third as if vfs were multi-instance;*)
(* and programs that ask for vfs or for fat, y alone without waiting for it.       *)
EXTENDS NameServer

CONSTANTS vfs, fat, v, y, x, f, g, p, q, r
MCNameOf == [d \in Driver |-> IF d \in {v, y, x} THEN vfs ELSE fat]
MCAsks ==
    [m \in Module |-> CASE m \in {f, p, y} -> vfs
                        [] m \in {q, r} -> fat
                        [] OTHER -> NoName]
MCImages == {<<f, p, q, v>>, <<q, g, r>>, <<v, q, y>>, <<v, x, p>>, <<p, x>>, <<q, g, v, f>>}
================================================================================
