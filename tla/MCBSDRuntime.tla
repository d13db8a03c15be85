---- MODULE MCBSDRuntime ----
(* A BSD host with the Docker and CNI loops, one source each. *)
EXTENDS BSDRuntime, TLC

CONSTANTS main, dockerLoop, cniLoop, docker, cni, p1, p2, u1, s1

\* The two collectors with their sources may change places.
MCSwap == {f \in Permutations({docker, cni, dockerLoop, cniLoop}) :
             /\ f[docker] \in {docker, cni}
             /\ f[docker] = cni <=> f[dockerLoop] = cniLoop}

MCCollects == [g \in Goroutine |-> CASE g = dockerLoop -> {docker}
                                     [] g = cniLoop    -> {cni}
                                     [] OTHER          -> {}]

\* A /128 that a container may hold too, a /128 of its own and a wider prefix.
MCPrefix == {{p1}, {s1}, {p1, s1}}

MCHosts == {{p1}, {s1}}

MCCLI == {{s1}}

Ok(lines) == [kind |-> "ok", lines |-> lines]

\* A container's host, and beside it a prefix only Linux accepts.
MCFiles == {Ok({{p1}}), Ok({{p1}, {p1, s1}})}

\* Absent, truncated and good.
MCFewFiles == {[kind |-> "missing", lines |-> {}], Ok({}), Ok({{p1}})}
====
