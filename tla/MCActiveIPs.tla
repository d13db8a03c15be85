---- MODULE MCActiveIPs ----
(* A small registry for TLC: two collectors racing on two sources. *)
EXTENDS ActiveIPs
====
