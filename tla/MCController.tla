---------------------------- MODULE MCController ----------------------------
(***************************************************************************)
(* Small instances of CertificateController for TLC.  Each configuration   *)
(* picks the specs the user starts from, what may be edited, which calls   *)
(* may fail and how often; the values are defined here.                    *)
(***************************************************************************)
EXTENDS CertificateInvariants

CONSTANTS d1, d2, rsaUser, rsaAcm, optOn, optOff, v1, v2

(* The user writes RSA_2048, ACM answers RSA-2048. *)
MCUnderscored == [a \in {rsaUser, rsaAcm} |-> rsaUser]
MCAcmSpelling == [a \in {rsaUser, rsaAcm} |-> rsaAcm]

(* Two tags of users, one default tag, one tag of AWS; or none at all.  A   *)
(* certificate carries two tags of users or defaults, so that one of users  *)
(* has to go before another is added.                                       *)
MCTagKeys     == {"user", "other", "default", "aws:x"}
MCAwsTagKeys  == {"aws:x"}
MCDefaultTags == [k \in MCTagKeys |-> IF k = "default" THEN v1 ELSE Nil]
Tag(key, v)   == [k \in MCTagKeys |-> IF k = key THEN v ELSE Nil]

NoTagKeys     == {"user"}
NoAwsTagKeys  == {}
NoDefaultTags == [k \in NoTagKeys |-> Nil]
NoTags        == [k \in TagKeys |-> Nil]

RequestSpec ==
  [certificate |-> FALSE, privateKey |-> FALSE, certificateARN |-> Nil,
   certificateAuthorityARN |-> FALSE, domainName |-> d1, keyAlgorithm |-> Nil,
   options |-> Nil, subjectAlternativeNames |-> Nil, exportTo |-> FALSE,
   tags |-> NoTags]

ImportSpec ==
  [RequestSpec EXCEPT !.certificate = TRUE, !.privateKey = TRUE, !.domainName = Nil]

SpelledSpec   == [RequestSpec EXCEPT !.keyAlgorithm = rsaUser]
PrivateExport == [RequestSpec EXCEPT !.exportTo = TRUE, !.certificateAuthorityARN = TRUE]
SpelledExport == [SpelledSpec EXCEPT !.exportTo = TRUE, !.options = optOn]

ExportSpecs   == {SpelledExport}
ImportSpecs   == {ImportSpec}
UpdateSpecs   == {[s EXCEPT !.tags = Tag("user", v1)] : s \in {SpelledSpec, ImportSpec}}
PlainSpecs    == {RequestSpec}

(* Every kind of spec a user may submit, the refused ones included; a       *)
(* request without exportTo takes no step that one with it does not take.   *)
(* The last two replace a certificate that is in ACM already, or is not.    *)
AllSpecs ==
  {PrivateExport, ImportSpec,
   [ImportSpec EXCEPT !.privateKey = FALSE],
   [ImportSpec EXCEPT !.domainName = d1],
   [RequestSpec EXCEPT !.domainName = Nil],
   [RequestSpec EXCEPT !.privateKey = TRUE],
   [ImportSpec EXCEPT !.certificateARN = 1],
   [ImportSpec EXCEPT !.certificateARN = 2]}

Arns1 == 1 .. 1
Arns2 == 1 .. 2
Arns3 == 1 .. 3
Arns5 == 1 .. 5

EmptyAcm == [id \in CertIds |-> Unused]
OneImported ==
  [id \in CertIds |->
     IF id = 1 THEN [status |-> "ISSUED", type |-> "IMPORTED", serial |-> 0,
                      ca |-> FALSE, domainName |-> d1, keyAlgorithm |-> rsaAcm,
                      options |-> optOff, names |-> d1, exportable |-> FALSE,
                      tags |-> NoTags]
     ELSE Unused]

NoEdits     == [f \in {} |-> {}]
OptionEdits == [options |-> {optOn, optOff}]
UpdateEdits == [tags |-> {Tag("user", v2), Tag("other", v1)},
                options |-> {optOn, optOff}]

(* Ways in which calls fail. *)
FailWith(calls, ways) == [c \in Calls |-> IF c \in calls THEN ways ELSE {}]

NoFailures   == FailWith({}, {})
AnyFailure   == FailWith(Calls, {"error"})
AnyRejection == FailWith(Calls, {"error", "terminal"})
ExportsFail    == FailWith(ExportCalls, {"error"})
ReadsFail      == FailWith({"DescribeCertificate"}, {"error"})

Mutations == {"RequestCertificate", "ImportCertificate", "DeleteCertificate"}

Nothing == [k \in Bounded |-> 0]

LifecycleLimits ==
  [k \in Bounded |-> IF k \in {"edit", "renew", "expire", "awsTag"} THEN 0 ELSE 1]
ExportLimits    ==
  [Nothing EXCEPT !["fault"] = 1, !["lost"] = 1, !["crash"] = 1, !["renew"] = 2, !["expire"] = 1]
UpdateLimits    ==
  [Nothing EXCEPT !["fault"] = 1, !["lost"] = 1, !["edit"] = 2, !["awsTag"] = 1]
OneFault        == [Nothing EXCEPT !["fault"] = 1]
OneCrash        == [Nothing EXCEPT !["crash"] = 1]
OneVanish       == [Nothing EXCEPT !["vanish"] = 1]
OneExpiry       == [Nothing EXCEPT !["expire"] = 1]
OneRenewal      == [Nothing EXCEPT !["exportFault"] = 1, !["renew"] = 1]
=============================================================================
