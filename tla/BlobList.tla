------------------------------ MODULE BlobList -------------------------------
(***************************************************************************)
(* The two tools that rewrite proprietary-files.txt: reorder-blobs.py,     *)
(* which sorts the lines of each section, and update-sha1sums.py, which    *)
(* pins the files under a header with " - from" by a hash, or drops the    *)
(* hashes.                                                                 *)
(*                                                                         *)
(* Sections are separated by empty lines; a line is a header (a comment)   *)
(* or a file, with its directory as a sequence of names.  How the texts of *)
(* the lines compare is a constant.                                        *)
(***************************************************************************)
EXTENDS SequencesExt, FiniteSets, Naturals

CONSTANTS
  Files,      \* files to start from: sequences of sections, sets of lines without a hash
  Strcoll     \* all lines, with and without a hash, in the order of their bytes

Line == [kind : {"from", "plain", "file"}, dir : Seq(STRING), name : STRING, hash : BOOLEAN]

\* A comment, taken by the comparator for a file in a directory of its name.
Header(kind) == [kind |-> kind, dir |-> <<kind>>, name |-> "", hash |-> FALSE]

File(dir, name, hash) == [kind |-> "file", dir |-> dir, name |-> name, hash |-> hash]

IsHeader(line) == line.kind # "file"

(***************************************************************************)
(* What is assumed of texts, which are compared by their bytes ("C"): "#"  *)
(* comes before all that paths begin with, and what is in a directory or   *)
(* below it stands together, as it begins with the same bytes, "/" included*)
(***************************************************************************)
BlobListAssumption ==
  /\ Strcoll \in Seq(Line)
  /\ Files \subseteq Seq(SUBSET Line)
  /\ \A sections \in Files : \A s \in DOMAIN sections : \A line \in sections[s] :
       /\ ~line.hash /\ line \in ToSet(Strcoll)
       /\ ~IsHeader(line) => [line EXCEPT !.hash = TRUE] \in ToSet(Strcoll)
  /\ \A x, y \in ToSet(Strcoll) :
       IsHeader(x) /\ ~IsHeader(y) => ~IsPrefix(x.dir, y.dir) /\ ~IsPrefix(y.dir, x.dir)
  /\ \A i, j \in DOMAIN Strcoll : IsHeader(Strcoll[i]) /\ ~IsHeader(Strcoll[j]) => i < j
  /\ \A i, j, k \in DOMAIN Strcoll :
       (i < j /\ j < k) \/ (k < j /\ j < i) =>
         (IsPrefix(Strcoll[i].dir, Strcoll[k].dir) => IsPrefix(Strcoll[i].dir, Strcoll[j].dir))

ASSUME BlobListAssumption

VARIABLES
  file,       \* the sections of proprietary-files.txt, as sequences of lines
  last,       \* the tool that ended last, or "updating": none, reorder, update, cleanup, failed
  lines,      \* update-sha1sums.py: the lines it has read, with the hashes set so far
  todo,       \* the places its loop has not come to
  needSHA1    \* update's local variable: unassigned, yes, no

vars == <<file, last, lines, todo, needSHA1>>

-----------------------------------------------------------------------------
(* reorder-blobs.py. *)

Position == [line \in ToSet(Strcoll) |-> CHOOSE i \in DOMAIN Strcoll : Strcoll[i] = line]

\* Mutant: the texts are compared the other way round.
BeforeReversed(x, y) ==
  \/ IsStrictPrefix(y.dir, x.dir)
  \/ ~IsStrictPrefix(x.dir, y.dir) /\ Position[x] >= Position[y]

\* Mutant: only whether the first line is in a subdirectory is looked at.
BeforeOneSided(x, y) ==
  \/ IsStrictPrefix(y.dir, x.dir)
  \/ Position[x] <= Position[y]

\* Subdirectories come before the files of a directory.
Before(x, y) ==
  \/ IsStrictPrefix(y.dir, x.dir)
  \/ ~IsStrictPrefix(x.dir, y.dir) /\ Position[x] <= Position[y]

\* What sorting may return: no line stands before one it belongs after.  It is
\* one sequence if the comparator is an order, and else depends on the algorithm.
Orders(section) ==
  {order \in SetToSeqs(ToSet(section)) :
     \A i \in 1 .. Len(order) - 1 : Before(order[i], order[i + 1])}

\* All ways of taking a member of each set.
OneOfEach(sets) ==
  {chosen \in [DOMAIN sets -> UNION {sets[s] : s \in DOMAIN sets}] :
     \A s \in DOMAIN sets : chosen[s] \in sets[s]}

Reorder ==
  /\ last # "updating"
  /\ file' \in OneOfEach([s \in DOMAIN file |-> Orders(file[s])])
  /\ last' = "reorder"
  /\ UNCHANGED <<lines, todo, needSHA1>>

-----------------------------------------------------------------------------
(* update-sha1sums.py. *)

\* A line's place is its section and its position there.
Places(sections) == UNION {{s} \X DOMAIN sections[s] : s \in DOMAIN sections}

LineAt(sections, place) == sections[place[1]][place[2]]

NotBelow(p, q) == p[1] < q[1] \/ (p[1] = q[1] /\ p[2] <= q[2])

\* The place the loop is at.
Index == CHOOSE p \in todo : \A q \in todo : NotBelow(p, q)

\* The lines are read.  The function has a needSHA1 of its own, which the
\* False that the script begins with does not reach.
UpdateBegin ==
  /\ last # "updating"
  /\ last' = "updating"
  /\ lines' = file
  /\ todo' = Places(file)
  /\ needSHA1' = "unassigned"
  /\ UNCHANGED file

\* Mutant: an empty line ends what the last header said.
NeedWithinSection(place) ==
  LET line == LineAt(lines, place) IN
  IF IsHeader(line) THEN (IF line.kind = "from" THEN "yes" ELSE "no")
  ELSE IF place[2] = 1 THEN "no"
  ELSE needSHA1

\* What needSHA1 is past a line: a header says it for the files after it, until
\* the next header.
Need(place) ==
  LET line == LineAt(lines, place) IN
  IF IsHeader(line) THEN (IF line.kind = "from" THEN "yes" ELSE "no") ELSE needSHA1

\* Mutant: a header is not skipped, and gets a hash as well.
SetsHashOfAny(place) == Need(place) = "yes"

SetsHash(place) == ~IsHeader(LineAt(lines, place)) /\ Need(place) = "yes"

\* One turn of the loop.  A file under a header without " - from" keeps the hash it has.
UpdateLine ==
  /\ last = "updating" /\ todo # {}
  /\ Need(Index) # "unassigned"
  /\ lines' = IF SetsHash(Index) THEN [lines EXCEPT ![Index[1]][Index[2]].hash = TRUE] ELSE lines
  /\ needSHA1' = Need(Index)
  /\ todo' = todo \ {Index}
  /\ UNCHANGED <<file, last>>

Ends(how) ==
  /\ last' = how
  /\ lines' = <<>> /\ todo' = {} /\ needSHA1' = "unassigned"

\* needSHA1 is read before a header was seen, or the file to be hashed is
\* missing: the script ends there and writes nothing.
UpdateFails ==
  /\ last = "updating" /\ todo # {}
  /\ ~IsHeader(LineAt(lines, Index)) /\ Need(Index) # "no"
  /\ Ends("failed")
  /\ UNCHANGED file

UpdateEnd ==
  /\ last = "updating" /\ todo = {}
  /\ file' = lines
  /\ Ends("update")

\* With -c.
Cleanup ==
  /\ last # "updating"
  /\ file' = [s \in DOMAIN file |-> [i \in DOMAIN file[s] |-> [file[s][i] EXCEPT !.hash = FALSE]]]
  /\ last' = "cleanup"
  /\ UNCHANGED <<lines, todo, needSHA1>>

-----------------------------------------------------------------------------
Listings(section) ==
  {list \in UNION {SetToSeqs({IF line \in hashed THEN [line EXCEPT !.hash = TRUE] ELSE line :
                               line \in section}) :
                    hashed \in SUBSET {line \in section : ~IsHeader(line)}} :
     \A i \in DOMAIN list : IsHeader(list[i]) => i = 1}

\* Headers stand first, as in the file; some files have a hash already.
Init ==
  /\ \E sections \in Files :
       file \in OneOfEach([s \in DOMAIN sections |-> Listings(sections[s])])
  /\ last = "none"
  /\ lines = <<>> /\ todo = {} /\ needSHA1 = "unassigned"

Next == Reorder \/ UpdateBegin \/ UpdateLine \/ UpdateFails \/ UpdateEnd \/ Cleanup

Spec == Init /\ [][Next]_vars

-----------------------------------------------------------------------------
(* Properties. *)

(***************************************************************************)
(* What a reader of the list takes it to say, without a loop: a file is    *)
(* pinned if the header nearest above, in whichever section, is " - from". *)
(***************************************************************************)
HeadersAbove(sections, place) ==
  {p \in Places(sections) : IsHeader(LineAt(sections, p)) /\ NotBelow(p, place)}

NeedSHA1(sections, place) ==
  \E p \in HeadersAbove(sections, place) :
    /\ LineAt(sections, p).kind = "from"
    /\ \A q \in HeadersAbove(sections, place) : NotBelow(q, p)

Hash(sections) ==
  [s \in DOMAIN sections |->
    [i \in DOMAIN sections[s] |->
      IF IsHeader(sections[s][i]) THEN sections[s][i]
      ELSE [sections[s][i] EXCEPT !.hash = @ \/ NeedSHA1(sections, <<s, i>>)]]]

Pinned(sections) ==
  {<<LineAt(sections, p).dir, LineAt(sections, p).name>> :
     p \in {q \in Places(sections) : ~IsHeader(LineAt(sections, q)) /\ NeedSHA1(sections, q)}}

\* Every section keeps its lines, but for their hashes, and headers have none.
TypeOK ==
  /\ [s \in DOMAIN file |->
        {[line EXCEPT !.hash = FALSE] : line \in ToSet(file[s])}] \in Files
  /\ \A s \in DOMAIN file : IsInjective(file[s])
  /\ \A p \in Places(file) : IsHeader(LineAt(file, p)) => ~LineAt(file, p).hash
  /\ last \in {"none", "reorder", "updating", "update", "cleanup", "failed"}
  /\ todo \subseteq Places(file)
  /\ needSHA1 \in {"unassigned", "yes", "no"}

\* A sorted file has one order: sorting it again, on whatever machine, changes
\* nothing, though subdirectories, hashes and texts pull in different directions
\* (reorder-blobs.py:29-49).
OrderSettles ==
  last = "reorder" => \A s \in DOMAIN file : Orders(file[s]) = {file[s]}

\* Whichever tools run in whichever order, the same files are to be pinned:
\* sorting takes no file out from under its header (reorder-blobs.py:60-63,
\* update-sha1sums.py:47-50).
PinsStay == [][Pinned(file') = Pinned(file)]_vars

\* What the loop writes, with needSHA1 carried from line to line and across
\* empty ones, is what the list says: a hash for every file whose nearest header
\* has " - from", in whichever section that is, and no other change
\* (update-sha1sums.py:43-64).
UpdateHashes == [][last' = "update" => file' = Hash(file)]_vars
=============================================================================
