-------------------------- MODULE ExtensionPackage --------------------------
(***************************************************************************)
(* A native extension package from its file to what may be installed: the  *)
(* archive and its manifest (native_extension_package.hpp), the validation *)
(* of both (native_extension.hpp) and the signature inside the package     *)
(* (extension_signature_sodium.cpp).                                       *)
(*                                                                         *)
(* A file is [suffix, header, count, entries, rest]: whether its name ends *)
(* as a package's, whether its header is the first version's, how many     *)
(* entries it announces, those that are there, and whether there are bytes *)
(* behind them.  An entry is [path, length]; a path is the sequence of     *)
(* what is between its slashes, so that a slash at its start or end is an  *)
(* empty segment there.  Text is told apart only by whether it is what a   *)
(* check asks for; which bytes are UTF-8 is at the end.                    *)
(***************************************************************************)
EXTENDS Naturals, FiniteSets, SequencesExt

CONSTANTS
  MaxEntries,     \* kNativeExtensionMaxPackageEntries
  MaxEntryBytes,  \* kNativeExtensionMaxEntryBytes
  MaxTotalBytes,  \* kNativeExtensionMaxTotalEntryBytes
  MaxManifest     \* kNativeExtensionMaxManifestBytes

Entries == [path : Seq(STRING) \ {<<>>}, length : Nat]

ManifestPath == <<"manifest">>
KeyPath == <<"signatures", "ed25519-sha256-v1.public-key">>
SignaturePath == <<"signatures", "ed25519-sha256-v1.signature">>

\* valid_extension_package_path; "bad" stands for a segment with a backslash, a
\* colon, a space or a control character.  The loop never sees what is behind a
\* last slash.
ValidPath(p) ==
  /\ p # <<"">> /\ "bad" \notin Range(p)
  /\ \A i \in DOMAIN p : p[i] \notin {".", ".."} /\ (i < Len(p) => p[i] # "")

\* decode_native_extension_archive, entry by entry: what it has seen and
\* whether it goes on.
EntryOk(seen, total, e) ==
  /\ e.length <= MaxEntryBytes /\ total + e.length <= MaxTotalBytes
  /\ ValidPath(e.path) /\ Last(e.path) # ""
  /\ e.path \notin seen
  /\ e.path = ManifestPath => e.length <= MaxManifest

ScanEntry(s, e) ==
  IF s.ok /\ EntryOk(s.seen, s.total, e)
    THEN [ok |-> TRUE, seen |-> s.seen \cup {e.path}, total |-> s.total + e.length]
    ELSE [s EXCEPT !.ok = FALSE]

Scan(entries) ==
  LET s[i \in 0..Len(entries)] ==
        IF i = 0 THEN [ok |-> TRUE, seen |-> {}, total |-> 0] ELSE ScanEntry(s[i - 1], entries[i])
  IN  s[Len(entries)]

\* Mutant: what follows the last entry is not looked at.
DecodedLoose(f) ==
  /\ f.suffix /\ f.header /\ f.count \in 1..MaxEntries /\ f.count <= Len(f.entries)
  /\ LET s == Scan(SubSeq(f.entries, 1, f.count)) IN s.ok /\ ManifestPath \in s.seen

\* An archive is accepted when it holds what it announces, a manifest among it,
\* and nothing else.  (The limit on the bytes of the whole file is left out:
\* without it more is accepted.)
Decoded(f) ==
  /\ f.suffix /\ f.header /\ f.count \in 1..MaxEntries /\ f.count <= Len(f.entries)
  /\ LET s == Scan(SubSeq(f.entries, 1, f.count)) IN s.ok /\ ManifestPath \in s.seen
  /\ f.count = Len(f.entries) /\ ~f.rest

----------------------------------------------------------------------------
(* The manifest: a sequence of lines <<key, value>>                        *)

ScalarKeys == {"manifest_version", "api_version", "id", "name", "version", "other scalar"}
RequiredKeys == ScalarKeys \ {"other scalar"}
ListKeys == {"entry_point", "permission", "allowed_website"}

\* decode_native_extension_manifest: the values a key has, in order.
Values(lines, key) == SelectSeq(lines, LAMBDA l : l[1] = key)

ManifestDecoded(lines) ==
  /\ \A l \in Range(lines) : l[1] \in ScalarKeys \cup ListKeys
  /\ \A k \in ScalarKeys : Len(Values(lines, k)) <= 1
  /\ \A k \in {"manifest_version", "api_version"} :
       \A l \in Range(Values(lines, k)) : l[2] \in {"1", "2"}
  /\ \A k \in RequiredKeys : Values(lines, k) # <<>>

\* The values of a list key that is checked for duplicates.
Distinct(lines, key) == IsInjective([i \in DOMAIN Values(lines, key) |-> Values(lines, key)[i]])

\* validate_extension_manifest; a value is "valid" for its key or it is not, and
\* an entry point is a path.
ManifestValid(lines) ==
  /\ \A k \in {"manifest_version", "api_version"} : Values(lines, k)[1][2] = "1"
  /\ \A k \in {"id", "name", "version"} : Values(lines, k)[1][2] = "valid"
  /\ Values(lines, "entry_point") # <<>>
  /\ \A l \in Range(Values(lines, "entry_point")) : ValidPath(l[2])
  /\ \A k \in {"permission", "allowed_website"} :
       \A l \in Range(Values(lines, k)) : l[2] \in {"valid", "valid too"}
  /\ \A k \in ListKeys : Distinct(lines, k)

\* validate_extension_package, for what decode_native_extension_archive accepts.
PackageValid(f, lines) ==
  /\ ManifestValid(lines)
  /\ \A l \in Range(Values(lines, "entry_point")) :
       \E e \in Range(f.entries) : e.path = l[2]

\* decode_native_extension_package
Loaded(f, lines) == Decoded(f) /\ ManifestDecoded(lines) /\ PackageValid(f, lines)

----------------------------------------------------------------------------
(* The signature.  A file is [path, contents], contents are [name, signs]:  *)
(* a digest is the term it is the hash of, and a signature has the name of *)
(* its key and signs a digest; other contents sign nothing.                *)

InNamespace(p) == p[1] = "signatures" /\ Len(p) > 1

\* Mutant: the contents alone are hashed.
CoveredContents(files) == {f.contents : f \in {g \in files : ~InNamespace(g.path)}}

\* What the digest binds: the number of the files outside the namespace, then
\* path and contents of each in the order of the paths.  The order is one of
\* the set of paths, so that what is bound is this set.
Covered(files) == {<<f.path, f.contents>> : f \in {g \in files : ~InNamespace(g.path)}}

\* verify_native_extension_package_signature, of a package still unsigned.
Verified(files) ==
  LET inside == {f \in files : InNamespace(f.path)}
      at(p) == {f \in files : f.path = p}
  IN  IF inside = {} THEN "unsigned"
      ELSE IF \E f \in inside : f.path \notin {KeyPath, SignaturePath} THEN "rejected"
      ELSE IF at(KeyPath) = {} \/ at(SignaturePath) = {} THEN "rejected"
      ELSE LET key == (CHOOSE f \in at(KeyPath) : TRUE).contents
               signature == (CHOOSE f \in at(SignaturePath) : TRUE).contents
           IN  IF signature = [name |-> key.name, signs |-> Covered(files)] THEN "signed" ELSE "rejected"

----------------------------------------------------------------------------
(* valid_extension_utf8, over the bytes of a text                          *)

\* How many bytes a character takes by its first byte; 0 for none that begins
\* one.
Width(b) ==
  IF b <= 127 THEN 1 ELSE IF b \in 194..223 THEN 2
  ELSE IF b \in 224..239 THEN 3 ELSE IF b \in 240..244 THEN 4 ELSE 0

\* The code point of a character of that width.
CodePoint(c) ==
  LET first == IF Len(c) = 1 THEN c[1]
               ELSE c[1] % (IF Len(c) = 2 THEN 32 ELSE IF Len(c) = 3 THEN 16 ELSE 8)
      point[i \in 1..Len(c)] == IF i = 1 THEN first ELSE point[i - 1] * 64 + (c[i] % 64)
  IN  point[Len(c)]

Character(c) ==
  /\ \A i \in 2..Len(c) : c[i] \div 64 = 2
  /\ LET p == CodePoint(c)
     IN  /\ Len(c) = 3 => p >= 2048
         /\ Len(c) = 4 => p >= 65536
         /\ p \notin 55296..57343 /\ p <= 1114111

ValidUtf8(bytes) ==
  LET valid[i \in 1..(Len(bytes) + 1)] ==
        IF i > Len(bytes) THEN TRUE
        ELSE LET w == Width(bytes[i])
             IN  /\ w # 0 /\ i + w - 1 <= Len(bytes)
                 /\ Character(SubSeq(bytes, i, i + w - 1))
                 /\ valid[i + w]
  IN  valid[1]

----------------------------------------------------------------------------
(* Properties                                                              *)

\* Where a path leads when "." and ".." are followed; <<"..">> out of the package.
Followed(at, s) ==
  IF at = <<"..">> \/ s \in {"", "."} THEN at
  ELSE IF s # ".." THEN Append(at, s)
  ELSE IF at = <<>> THEN <<"..">> ELSE Front(at)

Led(p) ==
  LET at[i \in 0..Len(p)] == IF i = 0 THEN <<>> ELSE Followed(at[i - 1], p[i])
  IN  at[Len(p)]

\* How many bytes the entries hold together.
Bytes(entries) ==
  LET sum[i \in 0..Len(entries)] == IF i = 0 THEN 0 ELSE sum[i - 1] + entries[i].length
  IN  sum[Len(entries)]

\* Of what is loaded every path leads where it says, inside the package, no two
\* entries have the same, all of them fit, there is one manifest, and everything
\* the manifest starts is there.  It is not said that the paths can all be
\* created: the code takes "manifest" beside "manifest/x", one of them as a file
\* and as a directory.
LoadedIsSound(f, lines) ==
  Loaded(f, lines) =>
    /\ \A e \in Range(f.entries) : Led(e.path) = e.path /\ e.path # <<>>
    /\ \A i, j \in DOMAIN f.entries :
         i # j => Led(f.entries[i].path) # Led(f.entries[j].path)
    /\ Cardinality({i \in DOMAIN f.entries : f.entries[i].path = ManifestPath}) = 1
    /\ Bytes(f.entries) <= MaxTotalBytes
    /\ \A l \in Range(Values(lines, "entry_point")) :
         Cardinality({e \in Range(f.entries) : e.path = l[2]}) = 1

\* An archive is read as a whole or not at all: neither one cut off nor one
\* with anything behind it is taken for the archive it begins with.
NoPartIsWhole(f) ==
  Decoded(f) =>
    /\ \A n \in 0..(Len(f.entries) - 1) : ~Decoded([f EXCEPT !.entries = SubSeq(@, 1, n)])
    /\ ~Decoded([f EXCEPT !.rest = TRUE])
    /\ \A n \in 0..(f.count - 1) : ~Decoded([f EXCEPT !.count = n])

\* A signature is of one set of files: with any other file, contents or name,
\* also with one moved into the signatures or out of them, it is not valid.
SignatureIsOfOnePackage(files, others) ==
  /\ Verified(files) = "signed" /\ Verified(others) = "signed"
  /\ {f \in files : f.path \in {KeyPath, SignaturePath}} =
       {f \in others : f.path \in {KeyPath, SignaturePath}}
  => files = others

\* The well-formed byte sequences of RFC 3629, for one character.
RfcCharacter(c) ==
  LET Continued(from) == \A i \in from..Len(c) : c[i] \in 128..191
  IN  \/ Len(c) = 1 /\ c[1] \in 0..127
      \/ Len(c) = 2 /\ c[1] \in 194..223 /\ Continued(2)
      \/ Len(c) = 3 /\ Continued(2) /\ \/ c[1] = 224 /\ c[2] \in 160..191
                                       \/ c[1] \in (225..236) \cup {238, 239}
                                       \/ c[1] = 237 /\ c[2] \in 128..159
      \/ Len(c) = 4 /\ Continued(2) /\ \/ c[1] = 240 /\ c[2] \in 144..191
                                       \/ c[1] \in 241..243
                                       \/ c[1] = 244 /\ c[2] \in 128..143

\* A text is UTF-8 exactly when it can be cut into well-formed characters: no
\* overlong form, no surrogate, nothing beyond the last code point, nothing cut.
Utf8IsRfc3629(bytes) ==
  LET cut[i \in 1..(Len(bytes) + 1)] ==
        i > Len(bytes) \/
        \E w \in 1..4 : /\ i + w - 1 <= Len(bytes)
                        /\ RfcCharacter(SubSeq(bytes, i, i + w - 1)) /\ cut[i + w]
  IN  ValidUtf8(bytes) <=> cut[1]
=============================================================================
