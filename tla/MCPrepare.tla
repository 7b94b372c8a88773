---------------------------- MODULE MCPrepare ----------------------------
(* Two prepares of the same images in opposite orders, and an apply that   *)
(* asks for two dependencies with a package in common and one nobody knows. *)
EXTENDS Prepare

MCAsks == ("p1" :> <<"docker">>) @@ ("p2" :> <<"docker">>)
            @@ ("apply" :> <<"ovn", "docker", "odd">>)

MCPackages == ("docker" :> {"d1", "d2"}) @@ ("ovn" :> {"d2"}) @@ ("odd" :> {})

MCImages == ("p1" :> <<"i1", "i2">>) @@ ("p2" :> <<"i2", "i1">>) @@ ("apply" :> <<>>)
=============================================================================
