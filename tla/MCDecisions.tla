---------------------------- MODULE MCDecisions ----------------------------
(* Inputs for model checking DecisionCases. *)
EXTENDS DecisionCases, SequencesExt

SomeSizes == 0..130

\* Every policy of an enabled site, and one of a disabled one.
SomePolicies == {p \in M!SitePolicies :
               p.enabled \/ (p.basic /\ p.visual_search /\ p.ai /\ p.ocr /\ p.remote)}

\* Good paths, one of them below the manifest, and paths that lead elsewhere or
\* nowhere.
Paths == {X!ManifestPath, <<"manifest", "x">>, <<"a">>, <<"a", "b">>, <<"..", "a">>, <<"a", "..", "a">>,
          <<".", "a">>, <<"", "a">>, <<"a", "">>, <<"bad">>}

Entries == [path : Paths, length : {0, 1, 3}]

\* Files of the right kind with any entries, and good ones of the wrong kind.
Files ==
  {[suffix |-> TRUE, header |-> TRUE, count |-> n, entries |-> e, rest |-> r] :
     n \in 0..3, e \in BoundedSeq(Entries, 2), r \in BOOLEAN}
  \cup {[suffix |-> s, header |-> h, count |-> n, entries |-> e, rest |-> FALSE] :
     s \in BOOLEAN, h \in BOOLEAN, n \in 1..3,
     e \in {<<[path |-> p, length |-> 1], [path |-> X!ManifestPath, length |-> 1],
              [path |-> q, length |-> 1]>> : p \in {<<"a">>, <<"b">>}, q \in {<<"a">>, <<"c">>}}}

BaseLines ==
  <<<<"manifest_version", "1">>, <<"api_version", "1">>, <<"id", "valid">>,
    <<"name", "valid">>, <<"version", "valid">>, <<"permission", "valid">>>>

\* A manifest that starts one thing, with one line more, less or other.
SomeLines ==
  LET starts(p) == Append(BaseLines, <<"entry_point", p>>)
      more == {<<k, v>> : k \in X!ScalarKeys \cup {"permission", "allowed_website", "unknown"},
                          v \in {"1", "2", "valid", "valid too", "invalid"}}
  IN  {starts(p) : p \in Paths} \cup {BaseLines}
      \cup {Append(starts(<<"a">>), l) : l \in more \cup {<<"entry_point", <<"a">>>>}}
      \cup {RemoveAt(starts(<<"a">>), i) : i \in 1..6}
      \cup {[starts(<<"a">>) EXCEPT ![i] = l] : i \in 1..6, l \in more}

GoodFile == [suffix |-> TRUE, header |-> TRUE, count |-> 2, rest |-> FALSE,
             entries |-> <<[path |-> X!ManifestPath, length |-> 1], [path |-> <<"a">>, length |-> 2]>>]

\* Any file with one entry point, and a good file with any manifest.
SomePackages ==
  UNION {{[file |-> f, lines |-> Append(BaseLines, <<"entry_point", p>>)] :
            p \in {e.path : e \in Range(f.entries)} \cup {<<"a">>}} : f \in Files}
  \cup {[file |-> GoodFile, lines |-> l] : l \in SomeLines}

\* Packages by their files: contents x and y at two paths and at one that only
\* looks as if it were of the signatures, a stranger among these, and any key
\* and signature.
Plain(name) == [name |-> name, signs |-> {}]
At(p, contents) == {[path |-> p, contents |-> c] : c \in contents}
OneOrNone(files) == {{}} \cup {{f} : f \in files}
Signable ==
  {a \cup b \cup c : a \in OneOrNone(At(<<"a">>, {Plain("x"), Plain("y")})),
                     b \in OneOrNone(At(<<"b">>, {Plain("x")})),
                     c \in OneOrNone(At(<<"signatures">>, {Plain("x")}))}
SomePayloads ==
  {p \cup s : p \in Signable, s \in OneOrNone(At(<<"signatures", "notes">>, {Plain("x")}))}
SomeSeals ==
  {a \cup b : a \in OneOrNone(At(X!KeyPath, {Plain("k1"), Plain("k2")})),
              b \in OneOrNone(At(X!SignaturePath,
                      [name : {"k1", "k2"}, signs : {X!Covered(p) : p \in Signable}]))}

\* Bytes at which the answer for a sequence changes.
EdgeBytes == {127, 128, 143, 144, 159, 160, 191, 192, 193, 194, 224, 237, 240, 244, 245}
SomeTexts == BoundedSeq(EdgeBytes, 4)

\* Any parts that failed with at most one signal, none with two.
SomeReports ==
  [failed : SUBSET Range(H!CoreParts), signals : BoundedSeq(H!Signals, 1)]
  \cup [failed : {{}}, signals : BoundedSeq(H!Signals, 2)]
=============================================================================
