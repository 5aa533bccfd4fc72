------------------------------ MODULE MCFolderOps ------------------------------
(***************************************************************************)
(* A small tree: folder d, in it e, and in that l, which may be a link to  *)
(* o, a folder outside of d with the entry g.                              *)
(***************************************************************************)
EXTENDS FolderOpsProperties

CONSTANTS c1, c2, root, d, e, l, o, g

MCClients == {c1, c2}
MCPaths == {d, e, l, o, g}
MCParent == (d :> root) @@ (e :> d) @@ (l :> e) @@ (o :> root) @@ (g :> o)
MCAbove == (d :> {}) @@ (e :> {d}) @@ (l :> {d, e}) @@ (o :> {}) @@ (g :> {o})
MCLinks == {l}
MCSpecials == {l}
MCAllOps == {"createFolder", "createFolderNextToFile", "createFile",
             "deleteFile", "deleteFolder"}
MCCreateFolder == {"createFolder"}
MCCallPaths == {d, l}
=============================================================================
