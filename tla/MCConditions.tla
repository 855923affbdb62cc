---------------------------- MODULE MCConditions ----------------------------
(***************************************************************************)
(* Small instances of CertificateConditions, with the values of            *)
(* MCController.                                                           *)
(***************************************************************************)
EXTENDS MCController, CertificateConditions

(* Creates and updates are refused, other calls but the reads fail.         *)
SomeRefused ==
  [c \in Calls |->
     CASE c \in {"DescribeCertificate", "ListTagsForCertificate", "PatchSpec"} -> {}
       [] c \in {"RequestCertificate", "ImportCertificate"} -> {"error", "terminal"}
       [] OTHER -> {"error"}]

(* A request, an import, and an import that is refused. *)
SettlingSpecs == {SpelledSpec, ImportSpec, [ImportSpec EXCEPT !.options = optOn]}

SettlingLimits ==
  [Nothing EXCEPT !["fault"] = 1, !["lost"] = 1, !["crash"] = 1, !["edit"] = 2, !["delete"] = 1]
=============================================================================
