----------------------------- MODULE MCPicture -----------------------------
(***************************************************************************)
(* Pixels and distances for RadarPicture: the axes, the diagonal, the      *)
(* edges of the disc, both sides of the circles and lines, and points      *)
(* whose tangent is, cut to an integer, that of a sector.                  *)
(***************************************************************************)
EXTENDS RadarPicture

Grid == (({0, 1, 30, 211, 353, 500} \cup {-n : n \in {1, 30, 211, 353, 500, 512}})
           \X {0, 1, 30, 101, 211, 353, 499, 500})
Exact == {<< 80, 17 >>, << 153, 41 >>, << 226, 183 >>, << 17, 80 >>, << 112, 194 >>}
MCPixels == Grid \cup Exact \cup {<< -p[1], p[2] >> : p \in Exact}

Distances == << 10, 60, 250 >>
MCScenes == {[k \in 0 .. 61 |-> Distances[1 + ((k + n) % 3)]] : n \in 0 .. 2}
MCWarns == {20, 100, 250}
=============================================================================
