----------------------------- MODULE MCBlobList ------------------------------
(***************************************************************************)
(* An instance of BlobList for TLC: a section to be pinned, with a file of *)
(* a directory, one of its subdirectory and one of a directory whose name  *)
(* only begins alike; a section without a header, behind it or in front;   *)
(* and one whose files are not to be pinned.                               *)
(***************************************************************************)
EXTENDS BlobList

\* lib/a.so, lib/hw/a.so, lib-x/a.so; lib/b.so; etc/a, etc/init/a.
LibSection == {Header("from"), File(<<"lib">>, "a.so", FALSE),
               File(<<"lib", "hw">>, "a.so", FALSE), File(<<"lib-x">>, "a.so", FALSE)}

BareSection == {File(<<"lib">>, "b.so", FALSE)}

EtcSection == {Header("plain"), File(<<"etc">>, "a", FALSE), File(<<"etc", "init">>, "a", FALSE)}

MCFiles == {<<LibSection, BareSection, EtcSection>>, <<BareSection, LibSection, EtcSection>>}

\* "-" and "." come before "/", and "|" after letters.
MCStrcoll ==
  << Header("from"), Header("plain"),
     File(<<"etc">>, "a", FALSE), File(<<"etc">>, "a", TRUE),
     File(<<"etc", "init">>, "a", FALSE), File(<<"etc", "init">>, "a", TRUE),
     File(<<"lib-x">>, "a.so", FALSE), File(<<"lib-x">>, "a.so", TRUE),
     File(<<"lib">>, "a.so", FALSE), File(<<"lib">>, "a.so", TRUE),
     File(<<"lib">>, "b.so", FALSE), File(<<"lib">>, "b.so", TRUE),
     File(<<"lib", "hw">>, "a.so", FALSE), File(<<"lib", "hw">>, "a.so", TRUE) >>
=============================================================================
