---------------------------- MODULE MCDeployment ----------------------------
(* Model checking instance of Deployment: two releases with the same schema or with
   one migration between them, in either order. *)
EXTENDS Deployment

CONSTANTS first, second
=============================================================================
