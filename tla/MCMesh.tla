------------------------------- MODULE MCMesh -------------------------------
(* Mesh on the nodes of the demo: earth writes to moon and mars.  earth's     *)
(* peer list names itself too, as in the tests of app.rs, and mars does not   *)
(* know moon.  moon has a usable endpoint for earth, mars a placeholder, for  *)
(* which no socket may be found.                                              *)
EXTENDS Mesh, TLC
CONSTANTS earth, moon, mars, m1

MCNodes == {earth, moon, mars}
MCMessages == {m1}
MCOrigin == m1 :> earth
MCPeers == earth :> {earth, moon, mars} @@ moon :> {earth, mars} @@ mars :> {earth}
MCAnswers == earth :> {moon, mars} @@ moon :> {earth} @@ mars :> {}
=============================================================================
