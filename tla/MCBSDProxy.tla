---- MODULE MCBSDProxy ----
(* Two addresses and two interfaces; the cfgs choose who disturbs whom. *)
EXTENDS BSDProxy
====
