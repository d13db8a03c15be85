---- MODULE MCInterfaceSelection ----
(* A bridge and two uplinks, listed in this order; an old and a new router. *)
EXTENDS InterfaceSelection

CONSTANTS br, em0, em1, old, new

ThreeLinks == <<br, em0, em1>>

TwoDefaults == {Route("default", old, 2), Route("default", new, 1)}
====
