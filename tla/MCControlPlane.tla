---------------------------- MODULE MCControlPlane ----------------------------
(***************************************************************************)
(* ControlPlane on small instances: a route that refers to an upstream, a  *)
(* body that compiles and one that does not (e.g. a bad certificate).      *)
(***************************************************************************)
EXTENDS ControlPlane

CONSTANTS route, upstream, good, broken, undecryptable

MCValid(bodies) ==
  {route, upstream} \subseteq Keys /\ bodies[route] # NoBody => bodies[upstream] # NoBody
MCDecodes(bodies) == \A k \in Keys : bodies[k] # undecryptable
MCCompiles(bodies) == \A k \in Keys : bodies[k] # broken

=============================================================================
