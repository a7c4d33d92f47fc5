---------------------------- MODULE ModuleVerify ----------------------------
(***************************************************************************)
(* ModuleVerify of src/status: the user drops a file, then the signature   *)
(* file for it; the block of the signature file is fetched, and the verdict*)
(* on hash and signature is shown.                                         *)
(***************************************************************************)
EXTENDS SignatureFile, Naturals

CONSTANTS
    Signatures,    \* signature files the user has
    VerifyEnvs,    \* see verifyEnv
    MaxChecks      \* bound: checks under way

ASSUME VerifyAssumption ==
    /\ Signatures \subseteq SignatureFiles
    /\ VerifyEnvs \subseteq [hurried : BOOLEAN, named : BOOLEAN]
    /\ MaxChecks \in Nat \ {0}

VARIABLES
    verifyEnv,     \* hurried: the user goes on while a check is under way;
                   \* named: GenesisService.getLatestFromSkipchainID has the name
                   \*       getLatestFromGenesisID, by which ModuleVerify calls it
                   \*       and which its mock in the tests has
    verify,        \* ModuleVerify.state
    verifying      \* calls of _verifySignature under way

verifyVars == <<verifyEnv, verify, verifying>>

VerifyInit ==
    /\ verifyEnv \in VerifyEnvs
    /\ verify = [file |-> None, isVerified |-> FALSE, isHashCorrect |-> FALSE,
                 isSignatureCorrect |-> FALSE, error |-> FALSE, of |-> None]
    /\ verifying = {}

\* handleFileDrop: the first file is the one to check, the second the one with
\* its signature.  of (history): the pair whose check was started last.
HandleFileDrop(x) ==
    /\ verifying = {} \/ verifyEnv.hurried
    /\ \/ /\ verify.file = None \/ verify.isVerified
          /\ verify' = [verify EXCEPT !.error = FALSE, !.file = x, !.isVerified = FALSE,
                                      !.isSignatureCorrect = FALSE]
          /\ UNCHANGED verifying
       \/ /\ verify.file # None /\ ~verify.isVerified
          /\ Cardinality(verifying) < MaxChecks
          /\ verifying' = verifying \cup {[file |-> verify.file, info |-> x, step |-> "reading"]}
          /\ verify' = [verify EXCEPT !.of = <<verify.file, x>>]
    /\ UNCHANGED verifyEnv

\* Mutant: the verdict stays.
HandleFileResetKeeps ==
    /\ verifying = {} \/ verifyEnv.hurried
    /\ verify' = [verify EXCEPT !.file = None, !.isSignatureCorrect = FALSE,
                                !.isHashCorrect = FALSE]
    /\ UNCHANGED <<verifyEnv, verifying>>

\* handleFileReset.
HandleFileReset ==
    /\ verifying = {} \/ verifyEnv.hurried
    /\ verify' = [verify EXCEPT !.file = None, !.isVerified = FALSE,
                                !.isSignatureCorrect = FALSE, !.isHashCorrect = FALSE]
    /\ UNCHANGED <<verifyEnv, verifying>>

\* A check ends with an error, which is shown.
Rejected(check) ==
    /\ verifying' = verifying \ {check}
    /\ verify' = [verify EXCEPT !.file = None, !.error = TRUE]

\* A check ends in an exception that nobody handles: it is never settled.
Lost(check) ==
    /\ verifying' = verifying \ {check}
    /\ UNCHANGED verify

\* A check goes on.
GoesOn(check, step) ==
    /\ verifying' = (verifying \ {check}) \cup {[check EXCEPT !.step = step]}
    /\ UNCHANGED verify

\* The dropped signature file was read.  A call of a method that GenesisService
\* does not have throws in a callback.
ReadInfo(check) ==
    /\ check.step = "reading"
    /\ \/ ~IsSignatureFile(check.info) /\ Rejected(check)
       \/ IsSignatureFile(check.info) /\ ~verifyEnv.named /\ Lost(check)
       \/ IsSignatureFile(check.info) /\ verifyEnv.named /\ GoesOn(check, "fetching")

\* The block of the signature file is fetched.  One that the chain does not
\* have is reported without an error, and the handler of errors fails.
FetchBlock(check) ==
    /\ check.step = "fetching"
    /\ \/ check.info.genesisID = check.info.block /\ GoesOn(check, "hashing")
       \/ check.info.genesisID # check.info.block /\ Lost(check)
       \/ Rejected(check)

\* The file was hashed: the verdict is shown, and the file is forgotten.
HashChecked(check) ==
    /\ check.step = "hashing"
    /\ verifying' = verifying \ {check}
    /\ verify' = [verify EXCEPT !.file = None, !.isVerified = TRUE, !.error = FALSE,
                                !.isHashCorrect = (check.file = check.info.hash),
                                !.isSignatureCorrect = IsSignatureCorrect(check.file, check.info)]

\* cryptoJS.verify throws, for a signature that it cannot read.
HashThrows(check) == check.step = "hashing" /\ Lost(check)

VerifyStep ==
    /\ \E check \in verifying :
          ReadInfo(check) \/ FetchBlock(check) \/ HashChecked(check) \/ HashThrows(check)
    /\ UNCHANGED verifyEnv

-----------------------------------------------------------------------------
VerifyNext ==
    \/ \E x \in Files \cup Signatures : HandleFileDrop(x)
    \/ HandleFileReset
    \/ VerifyStep

VerifySpec == VerifyInit /\ [][VerifyNext]_verifyVars

-----------------------------------------------------------------------------
Dropped == Files \cup Signatures

\* Every variable has its type, and a check has a file and what came second.
VerifyTypeOK ==
    /\ verifyEnv \in VerifyEnvs
    /\ verify.file \in Dropped \cup {None}
    /\ verify.isVerified => verify.file = None
    /\ \A check \in verifying :
          check.file \in Dropped /\ check.info \in Dropped
          /\ (check.step # "reading" => IsSignatureFile(check.info))

\* With a user who waits, the verdict that is shown is the one on the file and
\* signature dropped last.
VerdictOfLastPair ==
    ~verifyEnv.hurried /\ verify.isVerified
    => /\ verify.isHashCorrect = (verify.of[1] = verify.of[2].hash)
       /\ verify.isSignatureCorrect = IsSignatureCorrect(verify.of[1], verify.of[2])

=============================================================================
