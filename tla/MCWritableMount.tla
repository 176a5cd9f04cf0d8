-------------------------- MODULE MCWritableMount --------------------------
EXTENDS WritableMount

\* A file, a directory and a file in it.
MCPaths == {<<"d">>, <<"d", "f">>, <<"g">>}
MCRenames == {<<<<"g">>, <<"d", "f">>>>, <<<<"d", "f">>, <<"g">>>>}
MCWorkTrees == {(<<"g">> :> 101), (<<"g">> :> 102) @@ (<<"d">> :> Dir)}
MCMounted == [m \in Mounts |-> Main]
=============================================================================
