---------------------------- MODULE MCProjects ------------------------------
(* Editors against each other and against a slug that changes hands, and a  *)
(* run against owners who upload, remove and delete.                        *)
EXTENDS Projects, TLC

CONSTANTS c1, c2, c3, c4, s1, f1, f2

Do(kind, f) == [kind |-> kind, slug |-> s1, file |-> f]
Four(w, x, y, z) == c1 :> Do(w, f1) @@ c2 :> Do(x, f1) @@ c3 :> Do(y, f2) @@ c4 :> Do(z, f2)

mcScripts == {Four("edit", "delete", "create", "edit"),
              Four("edit", "edit", "replace", "edit"),
              Four("launch", "upload", "remove", "upload"),
              Four("launch", "edit", "delete", "create"),
              Four("launch", "remove", "upload", "launch")}
=============================================================================
