---- MODULE MCLinuxResponder ----
(* A Linux host: two collector loops, a public and an internal address. *)
EXTENDS LinuxResponder

CONSTANTS main, dockerLoop, cniLoop, docker, cni, p1, u1, s1, m1, gw, dad

MCCollects == [g \in Goroutine |-> CASE g = dockerLoop -> {docker}
                                     [] g = cniLoop    -> {cni}
                                     [] OTHER          -> {}]

\* Hosts: one that a container may hold too and one that is multicast.
MCHosts == {{p1}, {s1}, {m1}}

\* The gateway asks every node for an internal address, or this host whether it
\* still has a public one; a node checks whether it may use the static one.
MCSolicited == {NeighSolicitation(gw, u1, TRUE), NeighSolicitation(dad, s1, TRUE)}
MCOneSolicited == {NeighSolicitation(gw, p1, FALSE)}
MCNoneSolicited == {}

NoCLI == {}
MCCLI == {{s1}}

Ok(lines) == [kind |-> "ok", lines |-> lines]

NoFiles == {[kind |-> "missing", lines |-> {}]}
\* Truncated, two more hosts, and a good line before a bad one.
MCFewFiles == {Ok({}), Ok({{p1}, {m1}}), Ok({{p1}, Garbage})}
====
