---- MODULE StaticTargetsProofs ----
(***************************************************************************)
(* Proofs about the static targets that both runtimes rely on, for any     *)
(* prefixes given with -n and any states of the target file.               *)
(***************************************************************************)
EXTENDS StaticTargets, TLAPS

\* Every outcome of a reload keeps the -n prefixes and the lookup set's accord.
LEMMA ReloadKeepsTargets ==
    ASSUME StaticTypeOK, CLITargetsKept, reloadStaticTargetFile
    PROVE  (StaticTypeOK /\ CLITargetsKept)'
<1>1. targetFile \in FileStates
  BY StaticAssumption DEF StaticTypeOK
<1> DEFINE read == readStaticTargetFile(targetFile)
<1>2. read.err = "no" => read.prefixes \subseteq Prefix
  BY <1>1 DEF readStaticTargetFile, FileStates
<1>3. /\ staticTargets' \subseteq Prefix /\ CLITargets \subseteq staticTargets'
      /\ validateStaticTargetsForPlatform(staticTargets')
  <2>1. CASE staticTargets' = staticTargets
    BY <2>1 DEF StaticTypeOK, CLITargetsKept
  <2>2. CASE /\ staticTargets' = CLITargets \cup read.prefixes /\ read.err = "no"
             /\ validateStaticTargetsForPlatform(CLITargets \cup read.prefixes)
    BY <1>2, <2>2, StaticAssumption
  <2> QED
    BY <2>1, <2>2 DEF reloadStaticTargetFile, Merged
<1>4. targetSubnets' = Covered(staticTargets') /\ targetSubnets' \subseteq StaticAddr
  BY <1>3, StaticAssumption DEF reloadStaticTargetFile, Covered
<1>5. targetFile' \in TargetFiles
  BY DEF reloadStaticTargetFile, StaticTypeOK
<1>6. validateStaticTargetsForPlatform(staticTargets)'
  BY <1>3 DEF validateStaticTargetsForPlatform
<1> QED
  BY <1>3, <1>4, <1>5, <1>6 DEF StaticTypeOK, CLITargetsKept, Covered

LEMMA StaticInvInit == StaticInit => StaticTypeOK /\ CLITargetsKept
<1> SUFFICES ASSUME StaticInit PROVE StaticTypeOK /\ CLITargetsKept
  OBVIOUS
<1>1. targetFile \in FileStates
  BY StaticAssumption DEF StaticInit
<1>2. staticTargets \subseteq Prefix /\ CLITargets \subseteq staticTargets
  <2>1. CASE HasTargetFile
    BY <1>1, <2>1, StaticAssumption DEF StaticInit, readStaticTargetFile, FileStates
  <2>2. CASE ~HasTargetFile
    BY <2>2, StaticAssumption DEF StaticInit
  <2> QED
    BY <2>1, <2>2
<1>3. /\ targetSubnets = Covered(staticTargets) /\ targetFile \in TargetFiles
      /\ validateStaticTargetsForPlatform(staticTargets)
  BY DEF StaticInit
<1> QED
  BY <1>2, <1>3, StaticAssumption DEF StaticTypeOK, CLITargetsKept, Covered

\* Nothing else touches these variables but other programs rewriting the file.
LEMMA StaticInvNext ==
    ASSUME StaticTypeOK, CLITargetsKept,
           \/ UNCHANGED staticVars
           \/ reloadStaticTargetFile
           \/ \E file \in TargetFiles : RewriteTargetFile(file)
    PROVE  (StaticTypeOK /\ CLITargetsKept)'
<1>1. CASE UNCHANGED staticVars
  BY <1>1 DEF staticVars, StaticTypeOK, CLITargetsKept, Covered,
              validateStaticTargetsForPlatform
<1>2. CASE reloadStaticTargetFile
  BY <1>2, ReloadKeepsTargets
<1>3. CASE \E file \in TargetFiles : RewriteTargetFile(file)
  BY <1>3 DEF RewriteTargetFile, StaticTypeOK, CLITargetsKept, Covered,
              validateStaticTargetsForPlatform
<1> QED
  BY <1>1, <1>2, <1>3
====
