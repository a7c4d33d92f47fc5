---------------------------- MODULE SignatureFile ----------------------------
(***************************************************************************)
(* The signature files of src/status/src/models/signature-file.js, which   *)
(* ModuleSign writes and ModuleVerify reads, and how ModuleVerify checks   *)
(* one.  A file stands for its content and its hash; a signature is the    *)
(* file that was signed and the servers that signed it.                    *)
(***************************************************************************)
EXTENDS FiniteSets

CONSTANTS
    Files,         \* files a user may drop
    Chains,        \* skipchains; one stands for its latest block too
    Servers,       \* conodes
    Roster,        \* per chain, the servers of the block
    None           \* no file, no block, no signature file

ASSUME FileAssumption ==
    /\ IsFiniteSet(Servers)
    /\ Roster \in [Chains -> SUBSET Servers \ {{}}]
    /\ None \notin Files \cup Chains

\* What save() writes.  known (history): the servers that had a status when the
\* signature was asked for.
SignatureFiles ==
    [hash : Files, signature : [file : Files, signers : SUBSET Servers],
     genesisID : Chains, block : Chains, offline : SUBSET Servers, known : SUBSET Servers]

\* parse accepts the file.
IsSignatureFile(info) == info \notin Files

\* cryptoJS.verify with the keys of the block's servers that were not offline.
IsSignatureCorrect(f, info) ==
    /\ info.signature.file = f
    /\ info.signature.signers = Roster[info.block] \ info.offline
=============================================================================
