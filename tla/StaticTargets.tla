---- MODULE StaticTargets ----
(***************************************************************************)
(* Static targets (main.go): prefixes given with -n, and the target file   *)
(* that is read at startup and reloaded on every tick.  A prefix stands    *)
(* for the set of addresses it covers, so a /128 is a singleton; the       *)
(* netipx.IPSet built from a list of prefixes is the union of them.        *)
(***************************************************************************)
CONSTANTS StaticAddr,     \* addresses a static prefix may cover
          Prefix,         \* well-formed prefixes, each a set of addresses
          Garbage,        \* a line parseStaticTarget rejects
          CLITargets,     \* the prefixes given with -n
          TargetFiles,    \* the states the file takes, out of FileStates
          HasTargetFile,  \* --target-file was given
          HostsOnly       \* macOS and BSD: only /128 targets are accepted

(* A file is missing, fails to be read, or has lines; truncating and        *)
(* rewriting it in place passes through files with fewer lines.             *)
FileStates == [kind : {"missing", "unreadable"}, lines : {{}}]
                \cup [kind : {"ok"}, lines : SUBSET (Prefix \cup {Garbage})]

ASSUME StaticAssumption ==
    /\ Prefix \subseteq SUBSET StaticAddr
    /\ CLITargets \subseteq Prefix
    /\ Garbage \notin Prefix
    /\ TargetFiles \subseteq FileStates
    /\ HasTargetFile \in BOOLEAN
    /\ HostsOnly \in BOOLEAN

VARIABLES staticTargets,  \* the merged list, as the set of its prefixes
          targetSubnets,  \* the IPSet solicitations are looked up in
          targetFile      \* what the path holds: other programs rewrite it

staticVars == <<staticTargets, targetSubnets, targetFile>>

Host(a) == {a}
IsHost(prefix) == \E a \in StaticAddr : prefix = Host(a)

validateStaticTargetsForPlatform(prefixes) ==
    HostsOnly => \A p \in prefixes : IsHost(p)

readStaticTargetFile(file) ==
    IF file.kind = "ok" /\ Garbage \notin file.lines
    THEN [err |-> "no", prefixes |-> file.lines]
    ELSE [err |-> "yes", prefixes |-> {}]

Covered(prefixes) == UNION prefixes

(* Before: a file that is missing, invalid or rejected stops the program,   *)
(* so the process runs only from the states below.                          *)
StaticInit ==
    /\ targetFile \in TargetFiles
    /\ IF HasTargetFile
       THEN /\ readStaticTargetFile(targetFile).err = "no"
            /\ staticTargets = CLITargets \cup readStaticTargetFile(targetFile).prefixes
       ELSE staticTargets = CLITargets
    /\ validateStaticTargetsForPlatform(staticTargets)
    /\ targetSubnets = Covered(staticTargets)

\* A bug: the reloaded file replaces the prefixes given with -n.
MergeFileOnly(read) == read.prefixes

\* What a reload makes of the file: the merged list, or the list as it was.
Merged(read) ==
    LET merged == CLITargets \cup read.prefixes
    IN IF read.err = "no" /\ validateStaticTargetsForPlatform(merged)
       THEN merged
       ELSE staticTargets

reloadStaticTargetFile ==
    /\ staticTargets' = IF HasTargetFile
                        THEN Merged(readStaticTargetFile(targetFile))
                        ELSE staticTargets
    /\ targetSubnets' = Covered(staticTargets')
    /\ UNCHANGED targetFile

(* Another program rewrites, removes or restores the file. *)
RewriteTargetFile(file) ==
    /\ HasTargetFile
    /\ file # targetFile
    /\ targetFile' = file
    /\ UNCHANGED <<staticTargets, targetSubnets>>

currentStaticHosts == {a \in StaticAddr : Host(a) \in staticTargets}

-----------------------------------------------------------------------------
\* Only well-formed prefixes are kept, and on a proxy platform only hosts.
StaticTypeOK ==
    /\ staticTargets \subseteq Prefix
    /\ targetSubnets \subseteq StaticAddr
    /\ targetFile \in TargetFiles

\* Whatever happens to the target file, the prefixes given with -n stay and
\* the lookup set covers exactly the list (a reload may not drop a CLI target,
\* nor set one of the two globals without the other).
CLITargetsKept ==
    /\ CLITargets \subseteq staticTargets
    /\ targetSubnets = Covered(staticTargets)
    /\ validateStaticTargetsForPlatform(staticTargets)
====
