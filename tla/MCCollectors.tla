---- MODULE MCCollectors ----
(* Two Docker networks, one of them named twice, and one CNI directory. *)
EXTENDS Collectors

MCNetworks == <<"net1", "net2", "net1">>
MCDirs == <<"dir">>
====
