--------------------------- MODULE MCGoogleDrive ---------------------------
(* Model-checking instances of GoogleDrive: two paths that share a name.   *)
EXTENDS GoogleDrive

FolderPaths == {<<"a">>, <<"b", "a">>}
TwoProcs == {"p1", "p2"}
=============================================================================
