------------------------------ MODULE MCInputs ------------------------------
(***************************************************************************)
(* A small instance of CertificateInputs: requests with every way to name  *)
(* an authority and imports with and without a chain, an authority that    *)
(* comes, goes and changes, and two pairs of certificate and key.          *)
(***************************************************************************)
EXTENDS CertificateInputs

CONSTANTS a1, a2, p1, p2

Request ==
  [certificate |-> FALSE, certificateChain |-> FALSE, certificateAuthorityARN |-> Nil,
   certificateAuthorityRef |-> Nil, tooManyOptions |-> FALSE]
Referring == [Request EXCEPT !.certificateAuthorityRef = "ca"]
Importing == [Request EXCEPT !.certificate = TRUE]

MCSpecs ==
  {Request, Referring,
   [Request EXCEPT !.certificateAuthorityRef = "empty"],
   [Request EXCEPT !.certificateAuthorityARN = a1],
   [Request EXCEPT !.tooManyOptions = TRUE],
   [Referring EXCEPT !.certificateAuthorityARN = a1],
   [Referring EXCEPT !.tooManyOptions = TRUE],
   Importing, [Importing EXCEPT !.certificateChain = TRUE]}

Absent == [exists |-> FALSE, terminal |-> FALSE, synced |-> FALSE, arn |-> Nil]
Synced(a) == [exists |-> TRUE, terminal |-> FALSE, synced |-> TRUE, arn |-> a]
MCAuthorities ==
  {Absent, Synced(a1), Synced(a2), [Synced(a1) EXCEPT !.synced = FALSE],
   [Synced(a1) EXCEPT !.terminal = TRUE], [Synced(a1) EXCEPT !.arn = Nil]}

Pair(p) == [f \in SecretFields |-> p]
MCSecrets == {[Pair(p1) EXCEPT !["certificate"] = Missing]}
NoAuthority == {Absent}

MCLimits == [k \in Bounded |-> IF k \in {"authority", "rotate"} THEN 2 ELSE 1]
=============================================================================
