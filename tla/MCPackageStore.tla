--------------------------- MODULE MCPackageStore ---------------------------
(***************************************************************************)
(* Two shells, two versions and two trees, of which the second has lost a  *)
(* file: one shell that installs and cleans while the other publishes, two *)
(* that install what is published, and a purge.                            *)
(***************************************************************************)
EXTENDS PackageStore

MCShells == {"here", "there"}
MCVersions == {1, 2}
MCContents == 1 .. 2
MCFiles == {"lib", "util"}
MCEntry == "lib"
MCFilesOf == <<<<"lib", "util">>, <<"lib">>>>

MCScenes ==
    {[here |-> <<"install", "clean", "install">>, there |-> <<"publish", "publish", "publish">>],
     [here |-> <<"publish", "install", "offline">>, there |-> <<"install", "clean">>],
     [here |-> <<"publish", "install", "purge">>, there |-> <<"install", "publish">>]}
=============================================================================
