--------------------------- MODULE DecisionCases ---------------------------
(***************************************************************************)
(* The browser's pure decisions, for any inputs: the plans of a download   *)
(* (DownloadAdmission, which moves), and one input of each other kind,     *)
(* "case", which does not.                                                 *)
(***************************************************************************)
EXTENDS DownloadAdmission, FiniteSets

CONSTANTS
  Policies,      \* policies of a site
  Latest,        \* the last moment an answer of Wardveil may speak of
  Sizes, Chunks, \* of files that are digested
  MaxEntries, MaxEntryBytes, MaxTotalBytes, MaxManifest, \* limits of a package
  Packages,      \* [file, lines]: the file of a package, the lines of its manifest
  Payloads,      \* sets of files, without key and signature
  Seals,         \* sets of files: a key and a signature
  Texts,         \* sequences of bytes
  Subsystems,    \* dependencies of the browser
  Reports        \* [failed, signals]: parts that failed, signals of dependencies

X == INSTANCE ExtensionPackage
M == INSTANCE MediaActions
W == INSTANCE WardveilDecision
H == INSTANCE BrowserHealth

ASSUME InputAssumption ==
  /\ Policies \subseteq M!SitePolicies /\ Latest \in Nat
  /\ Sizes \subseteq Nat /\ Chunks \subseteq Nat \ {0}
  /\ {MaxEntries, MaxEntryBytes, MaxTotalBytes, MaxManifest} \subseteq Nat
  /\ \A p \in Packages :
       /\ p.file.entries \in Seq(X!Entries)
       /\ p.file = [suffix |-> p.file.suffix, header |-> p.file.header, count |-> p.file.count,
                    entries |-> p.file.entries, rest |-> p.file.rest]
  /\ Texts \subseteq Seq(0..255)
  /\ \A files \in Payloads \cup Seals :
       \A f \in files : f = [path |-> f.path, contents |-> f.contents]
  /\ \A r \in Reports : r.signals \in Seq(H!Signals)

VARIABLE case

\* The plan that stands still while another decision is looked at.
StillPlan ==
  /\ resource = [total |-> 1, ranges |-> FALSE, etag |-> CHOOSE e \in Etags : TRUE]
  /\ limit = 0
  /\ plan = MakePlan(1, 0, FALSE)
  /\ saved = MakeCheckpoint("url", resource.etag, plan)

CaseInit ==
  \/ Init /\ case = [kind |-> "plan"]
  \/ /\ StillPlan
     /\ \/ case \in [kind : {"media"}, hit : M!Hits, policy : Policies]
        \/ case \in [kind : {"scan"}, answer : W!AnswersUpTo(Latest)]
        \/ case \in [kind : {"digest"}, size : Sizes, chunk : Chunks]
        \/ case \in [kind : {"package"}, package : Packages]
        \/ case \in [kind : {"signature"}, payload : Payloads, seal : Seals]
        \/ case \in [kind : {"text"}, bytes : Texts]
        \/ case \in [kind : {"health"}, report : Reports]

CaseNext == case.kind = "plan" /\ Next /\ UNCHANGED case

CaseSpec == CaseInit /\ [][CaseNext]_<<vars, case>>

----------------------------------------------------------------------------
(* The properties of the modules, of the case at hand                      *)

\* Whatever is clicked in the popover, a medium leaves the browser only after
\* the user said yes to that, protected media is neither downloaded nor are its
\* frames taken, and what the policy of the site forbids is not done.
MediaIsGuarded ==
  case.kind = "media" =>
    /\ M!NothingLeavesUnasked(case.hit, case.policy)
    /\ M!ProtectedStays(case.hit, case.policy)
    /\ M!PolicyBinds(case.hit, case.policy)

\* A file is released only by a current clean finding about this very file, and
\* time never makes a finding milder.
FindingStands ==
  case.kind = "scan" =>
    /\ \A now \in 1..(Latest + 1) : W!ReleaseNeedsCurrentClean(case.answer, now)
    /\ W!NeverMilder(case.answer, Latest + 1)

\* The content of a file is named by its SHA-256, however it is read.
DigestIsStandard == case.kind = "digest" => W!DigestIsStandard(case.size, case.chunk)

\* What is loaded from a package has different paths, all of them inside it,
\* keeps the limits, has one manifest and what this starts; a package is read
\* as a whole or not at all, and its text is UTF-8 exactly if RFC 3629 calls it so.
PackageIsSound ==
  /\ case.kind = "package" =>
       /\ X!LoadedIsSound(case.package.file, case.package.lines)
       /\ X!NoPartIsWhole(case.package.file)
  /\ case.kind = "text" => X!Utf8IsRfc3629(case.bytes)

\* No other set of files bears the same key and signature.
SignatureIsOfOnePackage ==
  case.kind = "signature" =>
    \A p \in Payloads :
      X!SignatureIsOfOnePackage(case.payload \cup case.seal, p \cup case.seal)

\* Readiness is that of the worst of what is said.
ReadinessIsTheWorst ==
  case.kind = "health" => H!ReadinessIsTheWorst(case.report.failed, case.report.signals)
=============================================================================
