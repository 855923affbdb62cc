------------------------ MODULE CertificateLifecycle ------------------------
(***************************************************************************)
(* What the controller promises about the certificates of one Certificate  *)
(* resource, with nothing said of reads, patches, failures or crashes:     *)
(*                                                                         *)
(*   - it makes a certificate only for a resource it manages, one that     *)
(*     carries its finalizer, and only when the recorded certificate is    *)
(*     not there;                                                          *)
(*   - it records a certificate that was made, and gives up a record only  *)
(*     for another one, when the recorded certificate is not there;        *)
(*   - it deletes no certificate but the recorded one, and that one only   *)
(*     once somebody deletes the resource;                                 *)
(*   - it lets the resource go only when the recorded certificate is not   *)
(*     there.                                                              *)
(*                                                                         *)
(* Whoever uses the resource may rely on these steps and no others, as     *)
(* long as the deletionPolicy is delete, the default: with retain the      *)
(* certificate stays when the resource goes.                               *)
(* CertificateController implements them (Lifecycle in                     *)
(* CertificateProperties).                                                 *)
(***************************************************************************)
EXTENDS Naturals

CONSTANTS
  Ids,     \* certificate ARNs
  None     \* no certificate is recorded

VARIABLES
  phase,        \* of the resource
  recorded,     \* the certificate the resource names as its own
  certificate,  \* what has become of each ARN
  losses        \* how many certificates were deleted by others

vars == <<phase, recorded, certificate, losses>>

TypeOK ==
  /\ phase \in {"unmanaged", "managed", "deleting", "gone"}
  /\ recorded \in Ids \cup {None}
  /\ certificate \in [Ids -> {"unused", "live", "gone"}]
  /\ losses \in Nat

HasCertificate == recorded # None /\ certificate[recorded] = "live"

Cared == phase \in {"managed", "deleting"}

Init ==
  /\ phase = "unmanaged"
  /\ recorded = None
  /\ certificate \in [Ids -> {"unused", "live"}]
  /\ losses = 0

Manage ==
  /\ phase = "unmanaged"
  /\ phase' = "managed"
  /\ UNCHANGED <<recorded, certificate, losses>>

RequestDeletion ==
  /\ phase = "managed"
  /\ phase' = "deleting"
  /\ UNCHANGED <<recorded, certificate, losses>>

(* A resource that was never managed goes at once. *)
Abandon ==
  /\ phase = "unmanaged"
  /\ recorded = None
  /\ phase' = "gone"
  /\ UNCHANGED <<recorded, certificate, losses>>

Create(id) ==
  /\ Cared
  /\ ~HasCertificate
  /\ certificate[id] = "unused"
  /\ certificate' = [certificate EXCEPT ![id] = "live"]
  /\ UNCHANGED <<phase, recorded, losses>>

Record(id) ==
  /\ Cared
  /\ ~HasCertificate
  /\ certificate[id] # "unused"
  /\ recorded' = id
  /\ UNCHANGED <<phase, certificate, losses>>

Remove ==
  /\ phase = "deleting"
  /\ HasCertificate
  /\ certificate' = [certificate EXCEPT ![recorded] = "gone"]
  /\ UNCHANGED <<phase, recorded, losses>>

Release ==
  /\ phase = "deleting"
  /\ ~HasCertificate
  /\ phase' = "gone"
  /\ UNCHANGED <<recorded, certificate, losses>>

(* Somebody else deletes a certificate. *)
Lose(id) ==
  /\ certificate[id] = "live"
  /\ certificate' = [certificate EXCEPT ![id] = "gone"]
  /\ losses' = losses + 1
  /\ UNCHANGED <<phase, recorded>>

Next ==
  \/ Manage \/ RequestDeletion \/ Abandon \/ Remove \/ Release
  \/ \E id \in Ids : Create(id) \/ Record(id) \/ Lose(id)

Spec == Init /\ [][Next]_vars
=============================================================================
