------------------------- MODULE MCDownloadRuntime -------------------------
(* Requests for model checking DownloadRuntime. *)
EXTENDS DownloadRuntime

CONSTANTS s1, s2, a, b

Request(s, f, private, scheduled) ==
  [source |-> s, file |-> f, private |-> private, scheduled |-> scheduled]

\* One public download.
OnePlain == {Request(s1, a, FALSE, FALSE)}

\* Two public downloads with different destinations, one of them scheduled.
PlainAndScheduled == {Request(s1, a, FALSE, FALSE), Request(s2, b, FALSE, TRUE)}

\* A public download and a private, scheduled one.
PlainAndPrivate == {Request(s1, a, FALSE, FALSE), Request(s2, b, TRUE, TRUE)}

\* One public download, scheduled or not.
OneNowOrScheduled == {Request(s1, a, FALSE, FALSE), Request(s1, a, FALSE, TRUE)}
=============================================================================
