-------------------------- MODULE WardveilDecision --------------------------
(***************************************************************************)
(* What the browser makes of Wardveil's answer about a finished download   *)
(* (evaluate_wardveil_download_scan), and how it names the file's content: *)
(* the buffering and padding of its own SHA-256, with the compression of a *)
(* block left abstract.  Both are of wardveil_download_security.hpp.       *)
(*                                                                         *)
(* An answer says whether the transport worked, whether there is a record, *)
(* which of the record's claims match the request, and its result and      *)
(* times; versions, producers, scopes and digests are told apart only by   *)
(* whether they match.                                                     *)
(***************************************************************************)
EXTENDS Naturals, Integers, SequencesExt

Results == {"clean", "suspicious", "malicious", "unknown", "unsupported"}

Claims == {"transport", "record", "contract", "type", "authoritative", "producer",
           "scope", "digest"}

\* answer: [holds, result, observed, validUntil, evidence]
AnswersUpTo(latest) ==
  [holds : {Claims} \cup {Claims \ {c} : c \in Claims}, result : Results,
   observed : 0..latest, validUntil : 0..latest, evidence : BOOLEAN]

Unverified == [disposition |-> "block_unverified", release |-> FALSE, open |-> FALSE,
               quarantine |-> FALSE]

\* The checks made before the result is looked at.
Acceptable(a, now) ==
  /\ a.holds = Claims
  /\ a.observed > 0 /\ a.validUntil > a.observed /\ a.observed <= now

\* Mutant: an expired finding is no finding, malicious or not.
EvaluateForgets(a, now) ==
  IF ~Acceptable(a, now) \/ a.validUntil <= now THEN Unverified
  ELSE IF a.result = "malicious"
    THEN [Unverified EXCEPT !.disposition = "block_quarantine", !.quarantine = TRUE]
  ELSE IF a.result = "clean" /\ a.evidence
    THEN [disposition |-> "allow", release |-> TRUE, open |-> TRUE, quarantine |-> FALSE]
  ELSE IF a.result = "suspicious" THEN [Unverified EXCEPT !.disposition = "hold_review"]
  ELSE Unverified

\* evaluate_wardveil_download_scan
Evaluate(a, now) ==
  IF ~Acceptable(a, now) THEN Unverified
  ELSE IF a.result = "malicious"
    THEN [Unverified EXCEPT !.disposition = "block_quarantine", !.quarantine = TRUE]
  ELSE IF a.validUntil <= now THEN Unverified
  ELSE IF a.result = "clean" /\ a.evidence
    THEN [disposition |-> "allow", release |-> TRUE, open |-> TRUE, quarantine |-> FALSE]
  ELSE IF a.result = "suspicious" THEN [Unverified EXCEPT !.disposition = "hold_review"]
  ELSE Unverified

----------------------------------------------------------------------------
(* SHA-256 of a file of n bytes.  What is compressed is a sequence of bytes  *)
(* <<kind, value, index>>: the i-th byte of the file, the padding bit, a    *)
(* zero, or the i-th byte of the length.                                   *)

Byte(i) == <<"byte", 0, i>>
Pad == <<"pad", 0, 0>>
Zeros(k) == [i \in 1..k |-> <<"zero", 0, 0>>]
Length(bits) == [i \in 1..8 |-> <<"length", bits, i>>]

\* update: bytes are gathered, and each full block is compressed.
Updated(s, bytes) ==
  LET data == s.data \o bytes
      full == Len(data) \div 64
  IN  [data |-> SubSeq(data, 64 * full + 1, Len(data)),
       bits |-> s.bits + 512 * full,
       blocks |-> s.blocks \o [i \in 1..full |-> SubSeq(data, 64 * i - 63, 64 * i)]]

\* Mutant: a padding that just fits is thought not to.
FinalEarly(s) ==
  LET length == Length(s.bits + 8 * Len(s.data))
      data == Append(s.data, Pad)
  IN  IF Len(data) >= 56
        THEN s.blocks \o <<data \o Zeros(64 - Len(data)), Zeros(56) \o length>>
        ELSE Append(s.blocks, data \o Zeros(56 - Len(data)) \o length)

\* final_hex: the padding, in a block of its own when the length does not fit
\* behind it.
Final(s) ==
  LET length == Length(s.bits + 8 * Len(s.data))
      data == Append(s.data, Pad)
  IN  IF Len(data) > 56
        THEN s.blocks \o <<data \o Zeros(64 - Len(data)), Zeros(56) \o length>>
        ELSE Append(s.blocks, data \o Zeros(56 - Len(data)) \o length)

\* sha256_file: the file is read in chunks.
FileBlocks(n, chunk) ==
  LET fresh == [data |-> <<>>, bits |-> 0, blocks |-> <<>>]
      part(k) == [i \in 1..(IF (k + 1) * chunk <= n THEN chunk ELSE n - k * chunk)
                    |-> Byte(k * chunk + i)]
      s[k \in 0..((n + chunk - 1) \div chunk)] ==
        IF k = 0 THEN fresh ELSE Updated(s[k - 1], part(k - 1))
  IN  Final(s[(n + chunk - 1) \div chunk])

----------------------------------------------------------------------------
(* Properties                                                              *)

\* A file is released only by a finding that says clean, is about this very
\* file, has evidence and has neither expired nor a time still to come.
ReleaseNeedsCurrentClean(a, now) ==
  Evaluate(a, now).release =>
    /\ a.holds = Claims /\ a.result = "clean" /\ a.evidence
    /\ a.observed \in 1..now /\ a.validUntil > now

\* Time alone never makes a finding less severe: what was quarantined stays
\* so, and what was not released is not released later.
NeverMilder(a, latest) ==
  \A now, later \in 1..latest :
    now <= later /\ a.observed <= now =>
      /\ Evaluate(a, now).quarantine => Evaluate(a, later).quarantine
      /\ Evaluate(a, later).release => Evaluate(a, now).release

\* Whatever the chunks, what is compressed is the message, one padding bit, as
\* few zero bytes as make whole blocks, and the length of the message in bits.
DigestIsStandard(n, chunk) ==
  LET blocks == FileBlocks(n, chunk)
      at(i) == blocks[((i - 1) \div 64) + 1][((i - 1) % 64) + 1]
      size == 64 * Len(blocks)
  IN  /\ \A b \in DOMAIN blocks : Len(blocks[b]) = 64
      /\ size - (n + 9) \in 0..63
      /\ \A i \in 1..n : at(i) = Byte(i)
      /\ at(n + 1) = Pad
      /\ \A i \in (n + 2)..(size - 8) : at(i) = Zeros(1)[1]
      /\ \A i \in 1..8 : at(size - 8 + i) = Length(8 * n)[i]
=============================================================================
