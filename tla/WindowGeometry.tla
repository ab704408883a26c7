--------------------------- MODULE WindowGeometry ---------------------------
(***************************************************************************)
(* Nickvision::App::WindowGeometry (src/app/windowgeometry.cpp) as a JSON  *)
(* object: a function from keys to values of a kind.                       *)
(***************************************************************************)
EXTENDS Integers

CONSTANT Coordinates  \* values of the four numbers

Json(g) ==
    [key \in DOMAIN g |-> [kind |-> IF key = "IsMaximized" THEN "bool" ELSE "int64", is |-> g[key]]]

Default == [Width |-> 800, Height |-> 600, IsMaximized |-> FALSE, X |-> 10, Y |-> 10]

FromJson(json) ==
    [key \in DOMAIN Default |->
        IF key \in DOMAIN json /\ json[key].kind = Json(Default)[key].kind
        THEN json[key].is ELSE Default[key]]

Geometries == [Width : Coordinates, Height : Coordinates, IsMaximized : BOOLEAN,
               X : Coordinates, Y : Coordinates]

\* A geometry comes back from its JSON; and what is missing in a file, or is of
\* another kind, has its default, and alters nothing else.
GeometryRoundTrips ==
    \A g \in Geometries :
        /\ FromJson(Json(g)) = g
        /\ \A lost \in SUBSET DOMAIN g, other \in DOMAIN g :
              FromJson([key \in DOMAIN g \ lost |->
                           IF key = other THEN [kind |-> "string", is |-> "text"]
                           ELSE Json(g)[key]])
                  = [key \in DOMAIN g |-> IF key \in lost \cup {other} THEN Default[key] ELSE g[key]]

=============================================================================
