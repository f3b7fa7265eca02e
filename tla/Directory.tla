------------------------------ MODULE Directory ------------------------------
(***************************************************************************)
(* A directory on its way to the storage and back: zipDirToFile,           *)
(* prepareUploadArtifact and unpackArchive (internal/client/file.go) with  *)
(* the temporary files of UploadArtifact (internal/client/storage.go).     *)
(*                                                                         *)
(* While the directory is walked, others add and remove entries.  While an *)
(* archive is unpacked, any call may fail, and the user may try again over *)
(* what the failed attempt has left.  How the archive travels is the       *)
(* subject of Push and Pull: here the upload succeeds or fails, and the    *)
(* download has put the archive into a temporary file.                     *)
(***************************************************************************)
EXTENDS Naturals, Sequences, FiniteSets

CONSTANTS
  Order,       \* all the entries there may be, in the order of WalkDir
  Root,        \* the directory itself
  Parent,      \* the directory of an entry
  Kind,        \* dir, file, link (to a file) or dirlink (to a directory)
  Dotted,      \* entries with ".." somewhere in their names
  ReadOnly,    \* entries that their own mode does not allow to write to
  MaxOpen,     \* files that a process may have open at a time
  MaxChanges,  \* bound: changes to the directory
  MaxTries,    \* bound: attempts to unpack
  None

Entries == {Order[i] : i \in DOMAIN Order}
Dirs == {e \in Entries : Kind[e] = "dir"}

ASSUME DirectoryAssumption ==
  /\ Order \in Seq(Entries)
  /\ \A i, j \in DOMAIN Order : i # j => Order[i] # Order[j]
  /\ \A i, j \in DOMAIN Order : Order[i] = Parent[Order[j]] => i < j
  /\ Root \notin Entries
  /\ Parent \in [Entries -> Dirs \union {Root}]
  /\ Kind \in [Entries -> {"dir", "file", "link", "dirlink"}]
  /\ Dotted \subseteq Entries /\ ReadOnly \subseteq Entries
  /\ MaxOpen \in Nat \ {0} /\ MaxChanges \in Nat /\ MaxTries \in Nat
  /\ None \notin {"old", "partial", "new"}

VARIABLES
  tree,      \* the entries of the directory that is pushed
  changes,   \* how often it has changed
  steady,    \* entries that were there all the time since the walk began
  keyed,     \* whether there is a --cipher-key
  push,      \* where UploadArtifact is
  listed,    \* entries that WalkDir has read of a directory and not visited
  archive,   \* what was written to the archive, in this order
  path,      \* what zipDirToFile returns
  tmpFiles,  \* temporary files that exist
  deferred,  \* those that UploadArtifact will remove when it returns
  stuck,     \* those whose Close or Remove has failed
  stored,    \* the archive in the storage
  pull,      \* where unpackArchive is
  tries,     \* attempts to unpack
  done,      \* entries that were unpacked in this attempt
  dst,       \* the destination
  before,    \* what was in the destination before the first attempt
  faulted    \* whether the system has failed a call of the attempt

treeVars == <<tree, changes, steady>>
walkVars == <<listed, archive, path>>
tmpVars == <<tmpFiles, deferred, stuck>>
pushVars == <<keyed, push, walkVars, tmpVars, stored>>
pullVars == <<pull, tries, done, dst, before, faulted>>
dirVars == <<treeVars, pushVars, pullVars>>

Children(d, entries) == {e \in entries : Parent[e] = d}

\* A set of entries that contains the directory of each of them.
Rooted(entries) == \A e \in entries : Parent[e] \in entries \union {Root}

DirInit ==
  /\ tree \in {t \in SUBSET Entries : Rooted(t)}
  /\ changes = 0 /\ steady = tree
  /\ keyed \in BOOLEAN
  /\ push = "start"
  /\ listed = {} /\ archive = <<>> /\ path = None
  /\ tmpFiles = {} /\ deferred = {} /\ stuck = {}
  /\ stored = None
  /\ pull = "idle" /\ tries = 0 /\ done = 0
  /\ dst \in {[e \in Entries |-> None],
              [e \in Entries |-> IF e \in tree THEN "old" ELSE None]}
  /\ before = dst
  /\ faulted = FALSE

-----------------------------------------------------------------------------
(* The directory, in the hands of others *)

Change(entries) ==
  /\ push \in {"start", "walk"} /\ changes < MaxChanges
  /\ Rooted(entries)
  /\ tree' = entries
  /\ changes' = changes + 1
  /\ steady' = IF push = "walk" THEN steady \intersect entries ELSE entries
  /\ UNCHANGED <<pushVars, pullVars>>

Add(e) == e \notin tree /\ Change(tree \union {e})
Remove(e) == e \in tree /\ Change(tree \ {e})

-----------------------------------------------------------------------------
(* zipDirToFile and prepareUploadArtifact *)

Zip == "artifact-*.zip"
Enc == "artifact-enc-*"

\* os.Stat, then a temporary file and the names in the directory.
StartWalk ==
  /\ push = "start"
  /\ push' = "walk"
  /\ listed' = Children(Root, tree)
  /\ tmpFiles' = {Zip}
  /\ UNCHANGED <<treeVars, keyed, archive, path, deferred, stuck, stored, pullVars>>

StartFails ==
  /\ push = "start"
  /\ push' = "err"
  /\ UNCHANGED <<treeVars, keyed, walkVars, tmpVars, stored, pullVars>>

FirstOf(entries) ==
  Order[CHOOSE i \in DOMAIN Order :
          /\ Order[i] \in entries
          /\ \A j \in 1 .. i - 1 : Order[j] \notin entries]

\* Mutant of Visit: the error of the copy is ignored.
VisitIgnoringCopyError ==
  /\ push = "walk" /\ listed # {}
  /\ LET e == FirstOf(listed) IN
       /\ e \in tree
       /\ archive' = Append(archive, e)
       /\ listed' = (listed \ {e}) \union Children(e, tree)
  /\ UNCHANGED <<treeVars, keyed, push, path, tmpVars, stored, pullVars>>

\* A link is no directory: what it leads to is opened and copied, which works
\* for a file.  A directory is read when it has been visited.
Visit ==
  /\ push = "walk" /\ listed # {}
  /\ LET e == FirstOf(listed) IN
       /\ e \in tree /\ Kind[e] # "dirlink"
       /\ archive' = Append(archive, e)
       /\ listed' = (listed \ {e}) \union Children(e, tree)
  /\ UNCHANGED <<treeVars, keyed, push, path, tmpVars, stored, pullVars>>

\* The archive is written to the end, and closed.
CloseArchive ==
  /\ push = "walk" /\ listed = {}
  /\ push' = "hash"
  /\ path' = Zip
  /\ UNCHANGED <<treeVars, keyed, listed, archive, tmpVars, stored, pullVars>>

\* Mutant of WalkFails: only the last error is returned, and the archive goes
\* where a complete one would.
WalkEndsEarly ==
  /\ push = "walk"
  /\ push' = "hash"
  /\ path' = Zip
  /\ listed' = {}
  /\ UNCHANGED <<treeVars, keyed, archive, tmpVars, stored, pullVars>>

\* An entry has gone or cannot be read, or the archive cannot be written.  The
\* error of the walk is replaced by that of os.Remove: if there is none the
\* function returns no error and no path.
WalkFails ==
  /\ push = "walk"
  /\ listed' = {}
  /\ UNCHANGED path
  /\ \/ push' = "hash" /\ tmpFiles' = tmpFiles \ {Zip} /\ UNCHANGED stuck
     \/ push' = "err" /\ stuck' = stuck \union {Zip} /\ UNCHANGED tmpFiles
  /\ UNCHANGED <<treeVars, keyed, archive, deferred, stored, pullVars>>

\* No file has no name, so that there is nothing to hash without a path.
Hash ==
  /\ push = "hash" /\ path # None
  /\ push' = IF keyed THEN "seal" ELSE "send"
  /\ deferred' = {path}
  /\ UNCHANGED <<treeVars, keyed, walkVars, tmpFiles, stuck, stored, pullVars>>

HashFails ==
  /\ push = "hash"
  /\ push' = "err"
  /\ \/ tmpFiles' = tmpFiles \ {path} /\ UNCHANGED stuck
     \/ path # None /\ stuck' = stuck \union {path} /\ UNCHANGED tmpFiles
  /\ UNCHANGED <<treeVars, keyed, walkVars, deferred, stored, pullVars>>

-----------------------------------------------------------------------------
(* UploadArtifact *)

\* Mutant of Seal: the deferred call removes what newFilePath is by then.
SealReplacingPath ==
  /\ push = "seal"
  /\ push' = "send"
  /\ tmpFiles' = tmpFiles \union {Enc}
  /\ deferred' = {Enc}
  /\ UNCHANGED <<treeVars, keyed, walkVars, stuck, stored, pullVars>>

Seal ==
  /\ push = "seal"
  /\ push' = "send"
  /\ tmpFiles' = tmpFiles \union {Enc}
  /\ deferred' = deferred \union {Enc}
  /\ UNCHANGED <<treeVars, keyed, walkVars, stuck, stored, pullVars>>

Return(result) ==
  /\ push' = result
  /\ \E kept \in SUBSET deferred :
       /\ tmpFiles' = (tmpFiles \ deferred) \union kept
       /\ stuck' = stuck \union kept
  /\ UNCHANGED <<treeVars, keyed, walkVars, deferred, pullVars>>

\* Up to a failed Write the sealed copy is removed, if it exists.
SealFails == push = "seal" /\ Return("err") /\ UNCHANGED stored

\* After a failed Close nobody removes it.
CloseSealedFails ==
  /\ push = "seal"
  /\ push' = "err"
  /\ \E kept \in SUBSET deferred :
       /\ tmpFiles' = (tmpFiles \ deferred) \union kept \union {Enc}
       /\ stuck' = stuck \union kept \union {Enc}
  /\ UNCHANGED <<treeVars, keyed, walkVars, deferred, stored, pullVars>>

Send == push = "send" /\ stored' = archive /\ Return("ok")

SendFails == push = "send" /\ Return("err") /\ UNCHANGED stored

-----------------------------------------------------------------------------
(* unpackArchive *)

\* The archive has been downloaded and, if need be, decrypted.
StartUnpack ==
  /\ stored # None
  /\ pull \in {"idle", "err"} /\ tries < MaxTries
  /\ pull' = "unpack"
  /\ tries' = tries + 1
  /\ done' = 0
  /\ before' = IF tries = 0 THEN dst ELSE before
  /\ faulted' = FALSE
  /\ UNCHANGED <<treeVars, pushVars, dst>>

Current == stored[done + 1]

\* An existing entry is opened, a new one is made in its directory.
Writable(e) ==
  IF dst[e] # None THEN Kind[e] = "dir" \/ e \notin ReadOnly
                   ELSE Parent[e] \notin ReadOnly

\* Files stay open until unpackArchive returns.
OpenFiles == Cardinality({i \in 1 .. done : Kind[stored[i]] # "dir"})

\* Mutant of MayOpen: an entry that exists is not opened (O_EXCL).
MayOpenNew(e) ==
  IF Kind[e] = "dir" THEN Writable(e)
                     ELSE dst[e] = None /\ Writable(e) /\ OpenFiles < MaxOpen

MayOpen(e) == Writable(e) /\ (Kind[e] # "dir" => OpenFiles < MaxOpen)

UnpackStep(to, fault) ==
  /\ pull = "unpack"
  /\ pull' = to
  /\ faulted' = fault
  /\ UNCHANGED <<treeVars, pushVars, tries, before>>

UnpackEntry ==
  /\ UnpackStep("unpack", faulted)
  /\ done < Len(stored)
  /\ Current \notin Dotted /\ MayOpen(Current)
  /\ dst' = [dst EXCEPT ![Current] = "new"]
  /\ done' = done + 1

\* Mutant of Reject: entries with such names are skipped.
SkipDotted ==
  /\ UnpackStep("unpack", faulted)
  /\ done < Len(stored) /\ Current \in Dotted
  /\ done' = done + 1
  /\ UNCHANGED dst

\* The name of the entry is not accepted.
Reject ==
  /\ UnpackStep("err", faulted)
  /\ done < Len(stored) /\ Current \in Dotted
  /\ UNCHANGED <<dst, done>>

\* The entry cannot be made, or the file not opened for writing.
OpenFails ==
  /\ UnpackStep("err", faulted)
  /\ done < Len(stored)
  /\ Current \notin Dotted /\ ~MayOpen(Current)
  /\ UNCHANGED <<dst, done>>

\* The archive or the disk fails; a file that was opened has lost its content.
UnpackFails ==
  /\ UnpackStep("err", TRUE)
  /\ \/ UNCHANGED dst
     \/ /\ done < Len(stored)
        /\ Current \notin Dotted /\ MayOpen(Current) /\ Current \notin Dirs
        /\ dst' = [dst EXCEPT ![Current] = "partial"]
  /\ UNCHANGED done

UnpackReturns ==
  /\ UnpackStep("ok", faulted)
  /\ done = Len(stored)
  /\ UNCHANGED <<dst, done>>

DirNext ==
  \/ \E e \in Entries : Add(e) \/ Remove(e)
  \/ StartWalk \/ StartFails
  \/ Visit \/ CloseArchive \/ WalkFails
  \/ Hash \/ HashFails
  \/ Seal \/ SealFails \/ CloseSealedFails
  \/ Send \/ SendFails
  \/ StartUnpack
  \/ UnpackEntry \/ Reject \/ OpenFails \/ UnpackFails \/ UnpackReturns

DirSpec == DirInit /\ [][DirNext]_dirVars

-----------------------------------------------------------------------------
(* Properties *)

Archived(a) == {a[i] : i \in DOMAIN a}

\* Every variable keeps its type; an archive holds what can be read, each
\* entry once and no entry before its directory.
DirTypeOK ==
  /\ Rooted(tree) /\ steady \subseteq tree
  /\ listed \subseteq Entries
  /\ Archived(archive) \subseteq {e \in Entries : Kind[e] # "dirlink"}
  /\ \A i \in DOMAIN archive :
       LET earlier == {archive[j] : j \in 1 .. i - 1} IN
       archive[i] \notin earlier /\ Parent[archive[i]] \in earlier \union {Root}
  /\ path \in {None, Zip}
  /\ tmpFiles \union deferred \union stuck \subseteq {Zip, Enc}
  /\ dst \in [Entries -> {None, "old", "partial", "new"}]
  /\ stored # None => done \in 0 .. Len(stored)

\* A push that succeeds has stored every entry that was in the directory from
\* the beginning of the walk to its end, although zipDirToFile may return
\* without an error after the walk has failed.
StoredIsComplete == push = "ok" => steady \subseteq Archived(stored)

\* A push that has returned leaves no temporary file, except one that could
\* not be closed or removed.
PushLeavesNothing == push \in {"ok", "err"} => tmpFiles \subseteq stuck

\* A pull that succeeds has brought every entry of the archive, over whatever
\* was there and whatever earlier attempts have left.
UnpackedIsComplete ==
  pull = "ok" => \A e \in Archived(stored) : dst[e] = "new"

\* What a destination has no place for.  What a failed attempt has left is in
\* the way of the next one only if it is a read-only file.
InTheWay(e) ==
  \/ e \in Dotted
  \/ Parent[e] \in ReadOnly /\ before[e] = None
  \/ e \in ReadOnly \ Dirs /\ (before[e] # None \/ (tries > 1 /\ dst[e] # None))

\* Unpacking fails for nothing but a fault, more files than may be open, or the
\* very entry at which it stops, which was in the way from the beginning or is
\* a read-only file that an earlier attempt has left.
UnpackFailsForAReason ==
  pull = "err" =>
    \/ faulted
    \/ done < Len(stored) /\ InTheWay(Current)
    \/ Cardinality(Archived(stored) \ Dirs) > MaxOpen

\* "files/directories" (README.md:3): what was stored of a directory can be
\* unpacked in a new place, if the system fails no call.
DirectoryComesBack ==
  pull = "err" /\ tries = 1 /\ (\A e \in Entries : before[e] = None) => faulted
=============================================================================
