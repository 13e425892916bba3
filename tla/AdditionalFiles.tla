--------------------------- MODULE AdditionalFiles ---------------------------
(***************************************************************************)
(* extractAdditionalFiles: the entries of a zip archive are extracted, in  *)
(* their order, into the working directory that holds the source file.     *)
(*                                                                         *)
(* A name is the sequence of its components between slashes; its form says *)
(* whether it is plain, begins with a slash or has a backslash.  Sizes are *)
(* in units in which the limit is MaxBytes.                                *)
(***************************************************************************)
EXTENDS Integers, SequencesExt, FiniteSetsExt, Functions

CONSTANTS
    Entries,    \* entries an archive may have: [name, form, kind, size]
    Source,     \* path of the source file, a single component
    MaxBytes,   \* maxAdditionalFilesExtractedBytes
    MaxEntries  \* maxAdditionalFilesEntries

ASSUME FilesAssumption ==
    /\ Len(Source) = 1
    /\ MaxBytes \in Nat /\ MaxEntries \in Nat
    /\ \A e \in Entries :
          /\ e.form \in {"plain", "absolute", "backslash"}
          /\ e.kind \in {"file", "dir", "symlink", "other"}
          /\ e.size \in Nat

VARIABLES
    count,    \* entries of the archive
    archive,  \* those read so far
    files,    \* path -> size and number of the entry (0: the source file)
    dirs,     \* paths of the directories
    seen,     \* clean names so far
    bytes,    \* extractedBytes
    outcome   \* "none" before the end, "ok", or the kind of the error

filesVars == <<count, archive, files, dirs, seen, bytes, outcome>>

FilesInit ==
    /\ count \in 0..(MaxEntries + 1)
    /\ archive = <<>>
    /\ files = [p \in {Source} |-> [size |-> 0, entry |-> 0]]
    /\ dirs = {}
    /\ seen = {}
    /\ bytes = 0
    /\ outcome = "none"

\* path.Clean of a plain name; <<>> is the directory itself.
Clean(name) ==
    FoldLeft(LAMBDA path, c :
                 CASE c = "."                                          -> path
                   [] c = ".." /\ path # <<>> /\ Last(path) # ".."     -> Front(path)
                   [] c # "." /\ (c = ".." => path = <<>> \/ Last(path) = "..")
                                                                       -> Append(path, c),
             <<>>, name)

\* safeZipTarget's errors.  What is left of ".." in a clean path is at its head,
\* and a path without it stays below the working directory.
Unsafe(e) ==
    \/ e.name = <<>> \/ e.form # "plain"
    \/ Clean(e.name) = <<>>
    \/ ".." \in Range(Clean(e.name))

Above(path) == {SubSeq(path, 1, k) : k \in 1..(Len(path) - 1)}

TooMany == count > MaxEntries

\* The archive cannot be decoded or has too many entries.
RejectArchive ==
    /\ outcome = "none"
    /\ archive = <<>>
    /\ \/ outcome' = "invalid"
       \/ TooMany /\ outcome' = "too_many"
    /\ UNCHANGED <<count, archive, files, dirs, seen, bytes>>

\* The next entry of the archive is e.
Read(e) ==
    /\ outcome = "none"
    /\ ~TooMany
    /\ Len(archive) < count
    /\ archive' = Append(archive, e)
    /\ UNCHANGED count

RejectName(e) ==
    /\ Read(e)
    /\ Unsafe(e)
    /\ outcome' = "unsafe"
    /\ UNCHANGED <<files, dirs, seen, bytes>>

\* Seen before; SeenAsWritten would compare the names before they are cleaned.
SeenAsWritten(e) == \E i \in DOMAIN archive : archive[i].name = e.name
Seen(e)          == Clean(e.name) \in seen

RejectDuplicate(e) ==
    /\ Read(e)
    /\ ~Unsafe(e) /\ Seen(e)
    /\ outcome' = "duplicate"
    /\ UNCHANGED <<files, dirs, seen, bytes>>

ReadNew(e) ==
    /\ Read(e)
    /\ ~Unsafe(e) /\ ~Seen(e)
    /\ seen' = seen \cup {Clean(e.name)}

RejectKind(e) ==
    /\ ReadNew(e)
    /\ e.kind \in {"symlink", "other"}
    /\ outcome' = "kind"
    /\ UNCHANGED <<files, dirs, bytes>>

\* os.MkdirAll fails where the path leads through a file, and makes nothing; the
\* disk may fail as well.
Blocked(paths) == paths \cap DOMAIN files # {}

MakeDir(e) ==
    LET path == Clean(e.name)
        made == Above(path) \cup {path}
    IN  /\ ReadNew(e)
        /\ e.kind = "dir"
        /\ \/ Blocked(made) /\ outcome' = "conflict" /\ UNCHANGED dirs
           \/ outcome' = "failed" /\ UNCHANGED dirs
           \/ ~Blocked(made) /\ dirs' = dirs \cup made /\ UNCHANGED outcome
        /\ UNCHANGED <<files, bytes>>

\* The directory above cannot be made, the limit is reached, there is something
\* of this name (O_EXCL; Overwritable is os.Create), or the entry cannot be read.
Overwritable(path) == path \notin dirs
Free(path)         == path \notin dirs /\ path \notin DOMAIN files

Remaining == MaxBytes - bytes

RejectFile(e) ==
    LET path == Clean(e.name) IN
    /\ ReadNew(e)
    /\ e.kind = "file"
    /\ \/ /\ Blocked(Above(path))
          /\ outcome' = "conflict"
          /\ UNCHANGED dirs
       \/ /\ ~Blocked(Above(path))
          /\ Remaining <= 0
          /\ dirs' = dirs \cup Above(path)
          /\ outcome' = "too_large"
       \/ /\ ~Blocked(Above(path))
          /\ Remaining > 0
          /\ dirs' = dirs \cup Above(path)
          /\ \/ ~Free(path) /\ outcome' = "conflict"
             \/ outcome' = "failed"
    /\ UNCHANGED <<files, bytes>>

\* extractZipFile reads one byte more than what remains to notice an excess; a
\* reader limited to what remains has ReadsWhatRemains, and one without a limit
\* ReadsAll.
ReadsWhatRemains(size) == Min({size, Remaining})
ReadsAll(size)         == size
Reads(size)            == Min({size, Remaining + 1})

\* The copy may fail anywhere, and at its end when the checksum is wrong.
WriteFile(e) ==
    LET path == Clean(e.name) IN
    /\ ReadNew(e)
    /\ e.kind = "file"
    /\ ~Blocked(Above(path)) /\ Remaining > 0 /\ Free(path)
    /\ dirs' = dirs \cup Above(path)
    /\ \E written \in 0..Reads(e.size) :
          /\ files' = [p \in DOMAIN files \cup {path} |->
                          IF p = path THEN [size |-> written, entry |-> Len(archive) + 1]
                          ELSE files[p]]
          /\ \/ /\ outcome' = "failed"
                /\ UNCHANGED bytes
             \/ /\ written = Reads(e.size) /\ written > Remaining
                /\ outcome' = "too_large"
                /\ UNCHANGED bytes
             \/ /\ written = Reads(e.size) /\ written <= Remaining
                /\ bytes' = bytes + written
                /\ UNCHANGED outcome

Finish ==
    /\ outcome = "none"
    /\ Len(archive) = count
    /\ ~TooMany
    /\ outcome' = "ok"
    /\ UNCHANGED <<count, archive, files, dirs, seen, bytes>>

Extract(e) ==
    \/ RejectName(e) \/ RejectDuplicate(e) \/ RejectKind(e)
    \/ MakeDir(e) \/ RejectFile(e) \/ WriteFile(e)

FilesNext == RejectArchive \/ Finish \/ \E e \in Entries : Extract(e)

FilesSpec == FilesInit /\ [][FilesNext]_filesVars

-----------------------------------------------------------------------------

\* docs/development.md: "source-file overwrites are rejected": whatever an archive
\* names, in whatever spelling, the source file stays the submission's.
SourceIntact == Source \in DOMAIN files /\ files[Source].entry = 0

\* The limits bound what is written even of an archive that is rejected, up to
\* the one unit by which the excess is noticed (extractZipFile), and how many
\* files there are beside the source.
DiskBounded ==
    LET written == SumFunction([p \in DOMAIN files |-> files[p].size])
    IN  /\ written <= MaxBytes + 1 /\ (outcome = "ok" => written = bytes)
        /\ Cardinality(DOMAIN files) <= MaxEntries + 1

\* An accepted archive is extracted completely: each entry is there with its kind
\* and its size, and there is no other file.
ExtractedWhole ==
    outcome = "ok" =>
        /\ \A i \in DOMAIN archive :
              LET path == Clean(archive[i].name) IN
              IF archive[i].kind = "dir" THEN path \in dirs
              ELSE path \in DOMAIN files
                   /\ files[path] = [size |-> archive[i].size, entry |-> i]
        /\ \A p \in DOMAIN files : files[p].entry \in {0} \cup DOMAIN archive

\* Two paths cannot both be extracted: they are the same, or one is a file and
\* leads to the other.
Clash(p, pIsFile, q, qIsFile) ==
    p = q \/ (pIsFile /\ p \in Above(q)) \/ (qIsFile /\ q \in Above(p))

Improper ==
    LET path(i) == Clean(archive[i].name)
        file(i) == archive[i].kind = "file"
    IN  \/ \E i \in DOMAIN archive :
              Unsafe(archive[i]) \/ archive[i].kind \in {"symlink", "other"}
        \/ \E i \in DOMAIN archive : Clash(path(i), file(i), Source, TRUE)
        \/ \E i, j \in DOMAIN archive :
              i # j /\ Clash(path(i), file(i), path(j), file(j))

\* Whether the names of an archive are accepted depends on its entries and not on
\* their order, although the checks look at what is on the disk so far
\* (safeZipTarget, seen, MkdirAll, O_EXCL).
JudgedAsAWhole ==
    /\ outcome = "ok" => ~Improper
    /\ outcome \in {"unsafe", "duplicate", "kind", "conflict"} => Improper

=============================================================================
