--------------------------- MODULE DirectoryProofs ---------------------------
(***************************************************************************)
(* Proofs about Directory, for every tree of entries, with any changes to  *)
(* it while it is walked and any number of failed attempts to unpack it.   *)
(***************************************************************************)
EXTENDS Directory, FiniteSetTheorems, WellFoundedInduction, TLAPS

-----------------------------------------------------------------------------
(* The inductive invariant *)

Contents == {None, "old", "partial", "new"}

DirTypes ==
  /\ tree \subseteq Entries /\ Rooted(tree)
  /\ steady \subseteq tree /\ Rooted(steady)
  /\ listed \subseteq Entries
  /\ archive \in Seq({e \in Entries : Kind[e] # "dirlink"})
  /\ path \in {None, Zip}
  /\ tmpFiles \union deferred \union stuck \subseteq {Zip, Enc}
  /\ dst \in [Entries -> Contents] /\ before \in [Entries -> Contents]
  /\ done \in Nat

\* Nothing has happened before the walk, and it leaves no path to a file.
BeforeWalk ==
  /\ push = "start" => archive = <<>> /\ tmpFiles = {}
  /\ push \in {"start", "walk"} => path = None

\* The archive has no entry twice and none before its directory.
Sorted(a) ==
  \A i \in DOMAIN a :
    LET earlier == {a[j] : j \in 1 .. i - 1} IN
    a[i] \notin earlier /\ Parent[a[i]] \in earlier \union {Root}

\* What is listed has not been visited, but its directory has.
ListedIsNext ==
  push = "walk" =>
    \A e \in listed :
      e \notin Archived(archive) /\ Parent[e] \in Archived(archive) \union {Root}

\* An entry that has been there all the time is in the archive, or listed, or
\* its directory has been there all the time and is not in the archive yet.
WalkCovers ==
  push = "walk" =>
    \A e \in steady \ Archived(archive) :
      e \in listed \/ Parent[e] \in steady \ Archived(archive)

\* Only what was walked to the end goes on.
WalkIsComplete ==
  push \in {"seal", "send", "ok"} \/ (push = "hash" /\ path # None) =>
    steady \subseteq Archived(archive)

\* A temporary file that exists will be removed, or could not be.
TempFilesOwned ==
  /\ push \in {"walk", "hash"} => tmpFiles \subseteq {Zip}
  /\ push = "hash" => tmpFiles \subseteq {path}
  /\ push \in {"seal", "send"} => tmpFiles \subseteq deferred
  /\ push \in {"ok", "err"} => tmpFiles \subseteq stuck

\* Pulls come after a push that has stored its archive, which stays.
PullAfterPush ==
  /\ stored # None => push = "ok" /\ stored = archive
  /\ push = "ok" => stored = archive
  /\ pull # "idle" => push = "ok"
  /\ pull = "idle" => done = 0
  /\ push = "ok" => done <= Len(stored)

Unpacked == {stored[i] : i \in 1 .. done}

\* What an attempt has done so far.
UnpackInv ==
  /\ pull \in {"unpack", "ok"} => \A e \in Unpacked : dst[e] = "new"
  /\ pull = "ok" => done = Len(stored)
  /\ tries \in Nat /\ (pull # "idle" => tries > 0)
  /\ \A e \in Entries : before[e] # None => dst[e] # None
  /\ pull = "unpack" /\ tries = 1 =>
       \A e \in Entries : dst[e] # None => before[e] # None \/ e \in Unpacked

DirInv ==
  /\ DirTypes
  /\ BeforeWalk
  /\ Sorted(archive)
  /\ ListedIsNext
  /\ WalkCovers
  /\ WalkIsComplete
  /\ TempFilesOwned
  /\ PullAfterPush
  /\ UnpackInv
  /\ UnpackFailsForAReason

-----------------------------------------------------------------------------
(* Entries in order *)

\* Numbers have a least one.
LEMMA LeastElement ==
  ASSUME NEW T \in SUBSET Nat, T # {}
  PROVE  \E m \in T : \A n \in T : m <= n
<1> DEFINE R == OpToRel(<, Nat)
<1>1. IsWellFoundedOn(R, Nat)
  BY NatLessThanWellFounded
<1>2. \A m, n \in Nat : n < m => <<n, m>> \in R
  BY DEF OpToRel
<1> HIDE DEF R
<1>3. PICK m \in T : \A n \in T : <<n, m>> \notin R
  BY <1>1, WFMin
<1>4. \A n \in T : ~(n < m)
  BY <1>2, <1>3
<1>5. \A n \in T : m <= n
  BY <1>4
<1> QED BY <1>5

\* Of any entries there is one that comes first.
LEMMA FirstIndex ==
  ASSUME NEW S \in SUBSET Entries, S # {}
  PROVE  \E i \in DOMAIN Order :
           Order[i] \in S /\ \A j \in 1 .. i - 1 : Order[j] \notin S
<1> DEFINE T == {i \in DOMAIN Order : Order[i] \in S}
<1>1. T # {} /\ T \in SUBSET Nat /\ DOMAIN Order = 1 .. Len(Order) /\ Len(Order) \in Nat
  BY DirectoryAssumption DEF Entries
<1>2. PICK m \in T : \A n \in T : m <= n
  BY <1>1, LeastElement
<1>3. m \in DOMAIN Order /\ Order[m] \in S
  BY <1>2
<1>4. ASSUME NEW j \in 1 .. m - 1
      PROVE  Order[j] \notin S
  <2>1. j \in DOMAIN Order /\ ~(m <= j)
    BY <1>1, <1>3
  <2> QED BY <1>2, <2>1
<1> QED BY <1>3, <1>4

\* The walk takes the first entry that is listed.
LEMMA FirstIsListed ==
  ASSUME NEW S \in SUBSET Entries, S # {}
  PROVE  FirstOf(S) \in S
BY FirstIndex DEF FirstOf

\* Of any entries there is one whose directory is not among them.
LEMMA NoCycle ==
  ASSUME NEW S \in SUBSET Entries, S # {}
  PROVE  \E e \in S : Parent[e] \notin S
<1>1. PICK i \in DOMAIN Order :
        Order[i] \in S /\ \A j \in 1 .. i - 1 : Order[j] \notin S
  BY FirstIndex
<1>2. ASSUME Parent[Order[i]] \in S
      PROVE  FALSE
  <2>1. PICK j \in DOMAIN Order : Order[j] = Parent[Order[i]]
    BY <1>2 DEF Entries
  <2>2. j < i /\ i \in Nat /\ j \in Nat /\ j >= 1
    BY <2>1, DirectoryAssumption
  <2> QED BY <1>1, <1>2, <2>1, <2>2
<1> QED BY <1>1, <1>2

\* No entry is in itself.
LEMMA NotItsOwnDirectory ==
  ASSUME NEW e \in Entries
  PROVE  Parent[e] # e
<1>1. PICK f \in {e} : Parent[f] \notin {e}
  BY NoCycle
<1> QED BY <1>1

\* What a visit adds to the archive.
LEMMA AppendToArchive ==
  ASSUME NEW a \in Seq(Entries), NEW e \in Entries
  PROVE  /\ Archived(Append(a, e)) = Archived(a) \union {e}
         /\ Sorted(a) /\ e \notin Archived(a) /\ Parent[e] \in Archived(a) \union {Root} =>
              Sorted(Append(a, e))
<1> DEFINE b == Append(a, e)
<1>1. /\ Len(a) \in Nat /\ DOMAIN a = 1 .. Len(a)
      /\ DOMAIN b = 1 .. Len(a) + 1
      /\ b[Len(a) + 1] = e /\ \A i \in 1 .. Len(a) : b[i] = a[i]
  OBVIOUS
<1> HIDE DEF b
<1>2. Archived(b) = Archived(a) \union {e}
  BY <1>1 DEF Archived
<1>3. ASSUME Sorted(a), e \notin Archived(a), Parent[e] \in Archived(a) \union {Root}
      PROVE  Sorted(b)
  <2> SUFFICES ASSUME NEW i \in 1 .. Len(a) + 1
               PROVE  LET earlier == {b[j] : j \in 1 .. i - 1} IN
                      b[i] \notin earlier /\ Parent[b[i]] \in earlier \union {Root}
    BY <1>1 DEF Sorted
  <2>1. {b[j] : j \in 1 .. i - 1} = {a[j] : j \in 1 .. i - 1}
    BY <1>1
  <2>2. CASE i = Len(a) + 1
    BY <1>1, <1>3, <2>1, <2>2 DEF Archived
  <2>3. CASE i \in 1 .. Len(a)
    BY <1>1, <1>3, <2>1, <2>3 DEF Sorted
  <2> QED BY <1>1, <2>2, <2>3
<1> QED BY <1>2, <1>3 DEF b

-----------------------------------------------------------------------------
(* The push *)

\* Nothing is archived, stored or unpacked at first.
LEMMA InitInvariant == DirInit => DirInv
<1> SUFFICES ASSUME DirInit PROVE DirInv
  OBVIOUS
<1> USE DEF DirInit
<1>1. /\ Rooted(tree) /\ tree \subseteq Entries
      /\ dst \in [Entries -> Contents]
  BY DEF Contents
<1>2. <<>> \in Seq({e \in Entries : Kind[e] # "dirlink"})
  OBVIOUS
<1>3. DirTypes
  BY <1>1, <1>2 DEF DirTypes
<1>4. Sorted(archive)
  BY DEF Sorted
<1> QED BY <1>3, <1>4
  DEF DirInv, BeforeWalk, ListedIsNext, WalkCovers, WalkIsComplete, TempFilesOwned,
      PullAfterPush, UnpackInv, UnpackFailsForAReason

\* A step of the push before it has stored anything: there is no pull yet.
LEMMA NoPullYet ==
  ASSUME DirInv, push # "ok", UNCHANGED <<stored, pullVars>>, push' # "ok"
  PROVE  PullAfterPush' /\ UnpackInv' /\ UnpackFailsForAReason'
BY DEF DirInv, pullVars, PullAfterPush, UnpackInv, UnpackFailsForAReason

\* Others may change the directory until it has been walked.
LEMMA ChangeKeepsInvariant ==
  ASSUME DirInv, NEW entries \in SUBSET Entries, Change(entries)
  PROVE  DirInv'
<1> USE DEF DirInv, Change, pushVars, walkVars, tmpVars
<1>1. PullAfterPush' /\ UnpackInv' /\ UnpackFailsForAReason'
  BY NoPullYet
<1>2. Rooted(steady') /\ steady' \subseteq tree'
  BY DEF Rooted, DirTypes
<1>3. DirTypes'
  BY <1>2 DEF DirTypes, pullVars
<1>4. BeforeWalk' /\ Sorted(archive)' /\ TempFilesOwned' /\ WalkIsComplete'
  BY DEF BeforeWalk, Sorted, TempFilesOwned, WalkIsComplete
<1>5. ListedIsNext'
  BY DEF ListedIsNext, Archived
<1>6. WalkCovers'
  <2> SUFFICES ASSUME push = "walk", NEW e \in steady' \ Archived(archive), e \notin listed
               PROVE  Parent[e] \in steady' \ Archived(archive)
    BY DEF WalkCovers, Archived
  <2>1. e \in steady /\ e \in entries /\ steady' = steady \intersect entries
    OBVIOUS
  <2>2. Parent[e] \in steady \ Archived(archive)
    BY <2>1 DEF WalkCovers
  <2>3. Parent[e] \in entries
    BY <2>1, <2>2, DirectoryAssumption DEF Rooted, DirTypes
  <2> QED BY <2>1, <2>2, <2>3
<1> QED BY <1>1, <1>3, <1>4, <1>5, <1>6

\* The walk begins with the names in the directory itself.
LEMMA StartWalkKeepsInvariant ==
  ASSUME DirInv, StartWalk
  PROVE  DirInv'
<1> USE DEF DirInv, StartWalk, treeVars
<1>1. PullAfterPush' /\ UnpackInv' /\ UnpackFailsForAReason'
  BY NoPullYet
<1>2. DirTypes'
  BY DEF DirTypes, pullVars, Children
<1>3. BeforeWalk' /\ Sorted(archive)' /\ TempFilesOwned' /\ WalkIsComplete'
  BY DEF BeforeWalk, Sorted, TempFilesOwned, WalkIsComplete
<1>4. Archived(archive) = {}
  BY DEF BeforeWalk, Archived
<1>5. ListedIsNext'
  BY <1>4 DEF ListedIsNext, Archived, Children
<1>6. WalkCovers'
  BY <1>4 DEF WalkCovers, DirTypes, Rooted, Children, Archived
<1> QED BY <1>1, <1>2, <1>3, <1>5, <1>6

\* A visit puts one entry into the archive, and lists what is in it.
LEMMA VisitKeepsInvariant ==
  ASSUME DirInv, Visit
  PROVE  DirInv'
<1> USE DEF DirInv, Visit, treeVars, tmpVars
<1> DEFINE e == FirstOf(listed)
<1>1. PullAfterPush' /\ UnpackInv' /\ UnpackFailsForAReason'
  BY NoPullYet
<1>2. e \in listed /\ e \in Entries /\ e \in tree /\ Kind[e] # "dirlink"
  BY FirstIsListed DEF DirTypes
<1>3. archive' = Append(archive, e) /\ listed' = (listed \ {e}) \union Children(e, tree)
  OBVIOUS
<1>4. archive \in Seq(Entries)
  BY DEF DirTypes
<1>5. e \notin Archived(archive) /\ Parent[e] \in Archived(archive) \union {Root}
  BY <1>2 DEF ListedIsNext
<1> HIDE DEF e
<1>6. Archived(archive') = Archived(archive) \union {e} /\ Sorted(archive')
  BY <1>2, <1>3, <1>4, <1>5, AppendToArchive
<1>7. DirTypes'
  BY <1>2, <1>3 DEF DirTypes, pullVars, Children
<1>8. BeforeWalk' /\ TempFilesOwned' /\ WalkIsComplete'
  BY DEF BeforeWalk, TempFilesOwned, WalkIsComplete
<1>9. ListedIsNext'
  <2> SUFFICES ASSUME NEW c \in listed'
               PROVE  /\ c \notin Archived(archive')
                      /\ Parent[c] \in Archived(archive') \union {Root}
    BY DEF ListedIsNext, Archived
  <2>1. CASE c \in listed \ {e}
    BY <1>6, <2>1 DEF ListedIsNext
  <2>2. CASE c \in Children(e, tree)
    <3>1. Parent[c] = e /\ c \in Entries /\ c # e
      BY <2>2, NotItsOwnDirectory DEF Children, DirTypes
    <3>2. c \notin Archived(archive)
      <4> SUFFICES ASSUME NEW i \in DOMAIN archive, archive[i] = c PROVE FALSE
        BY DEF Archived
      <4>1. e \in {archive[j] : j \in 1 .. i - 1}
        BY <1>2, <3>1, DirectoryAssumption DEF Sorted
      <4>2. DOMAIN archive = 1 .. Len(archive) /\ Len(archive) \in Nat
        BY <1>4
      <4>3. 1 .. i - 1 \subseteq DOMAIN archive
        BY <4>2
      <4> QED BY <1>5, <4>1, <4>3 DEF Archived
    <3> QED BY <1>6, <3>1, <3>2
  <2> QED BY <1>3, <2>1, <2>2
<1>10. WalkCovers'
  <2> SUFFICES ASSUME NEW c \in steady \ Archived(archive'), c \notin listed'
               PROVE  Parent[c] \in steady \ Archived(archive')
    BY DEF WalkCovers, Archived
  <2>1. c \notin Archived(archive) /\ c # e /\ c \notin listed /\ c \in tree
    BY <1>3, <1>6 DEF DirTypes
  <2>2. Parent[c] \in steady \ Archived(archive)
    BY <2>1 DEF WalkCovers
  <2>3. Parent[c] # e
    BY <1>3, <2>1 DEF Children
  <2> QED BY <1>6, <2>2, <2>3
<1> QED BY <1>1, <1>6, <1>7, <1>8, <1>9, <1>10

\* A step to where nothing is walked: what is left to show are the temporary
\* files and that the archive is complete.
LEMMA WalkedKeepsInvariant ==
  ASSUME DirInv, push \notin {"ok", "err"}, push' \notin {"start", "walk", "ok"},
         UNCHANGED <<treeVars, keyed, archive, stored, pullVars>>,
         listed' \subseteq Entries, path' \in {None, Zip},
         tmpFiles' \union deferred' \union stuck' \subseteq {Zip, Enc},
         WalkIsComplete', TempFilesOwned'
  PROVE  DirInv'
<1> USE DEF DirInv, treeVars
<1>1. PullAfterPush' /\ UnpackInv' /\ UnpackFailsForAReason'
  <2>1. push # "ok" /\ push' # "ok" /\ UNCHANGED <<stored, pullVars>>
    OBVIOUS
  <2> HIDE DEF DirInv
  <2> QED BY <2>1, NoPullYet
<1>2. DirTypes'
  BY DEF DirTypes, pullVars
<1>3. BeforeWalk' /\ Sorted(archive)' /\ ListedIsNext' /\ WalkCovers'
  BY DEF BeforeWalk, Sorted, ListedIsNext, WalkCovers
<1> QED BY <1>1, <1>2, <1>3

\* The archive is closed when nothing is listed: then no entry that has been
\* there all the time is missing, for its directory would be missing too.
LEMMA CloseArchiveKeepsInvariant ==
  ASSUME DirInv, CloseArchive
  PROVE  DirInv'
<1> USE DEF DirInv, CloseArchive, tmpVars
<1>1. steady \subseteq Archived(archive)
  <2> DEFINE S == steady \ Archived(archive)
  <2> SUFFICES ASSUME S # {} PROVE FALSE
    OBVIOUS
  <2>1. S \in SUBSET Entries
    BY DEF DirTypes
  <2>2. \A e \in S : Parent[e] \in S
    BY DEF WalkCovers
  <2> HIDE DEF S
  <2> QED BY <2>1, <2>2, NoCycle
<1>2. WalkIsComplete' /\ TempFilesOwned'
  BY <1>1 DEF WalkIsComplete, TempFilesOwned, treeVars, Archived
<1>3. tmpFiles' \union deferred' \union stuck' \subseteq {Zip, Enc} /\ listed' \subseteq Entries
  BY DEF DirTypes
<1> HIDE DEF DirInv
<1> QED BY <1>2, <1>3, WalkedKeepsInvariant

\* The other steps of zipDirToFile and prepareUploadArtifact.
LEMMA PrepareKeepsInvariant ==
  ASSUME DirInv, StartFails \/ WalkFails \/ Hash \/ HashFails
  PROVE  DirInv'
<1>1. /\ tmpFiles \union deferred \union stuck \subseteq {Zip, Enc}
      /\ listed \subseteq Entries /\ path \in {None, Zip}
      /\ BeforeWalk /\ WalkIsComplete /\ TempFilesOwned
  BY DEF DirInv, DirTypes
<1> USE <1>1 DEF BeforeWalk, walkVars, tmpVars, treeVars
<1>2. CASE StartFails
  <2> USE <1>2 DEF StartFails
  <2>1. WalkIsComplete' /\ TempFilesOwned'
    BY DEF WalkIsComplete, TempFilesOwned
  <2> QED BY <2>1, WalkedKeepsInvariant
<1>3. CASE WalkFails
  <2> USE <1>3 DEF WalkFails
  <2>1. WalkIsComplete' /\ TempFilesOwned'
    BY DEF WalkIsComplete, TempFilesOwned
  <2> QED BY <2>1, WalkedKeepsInvariant
<1>4. CASE Hash
  <2> USE <1>4 DEF Hash
  <2>1. push' \in {"seal", "send"} /\ deferred' = {path} /\ path = Zip
    OBVIOUS
  <2>2. WalkIsComplete' /\ TempFilesOwned'
    BY <2>1 DEF WalkIsComplete, TempFilesOwned, Archived
  <2> QED BY <2>1, <2>2, WalkedKeepsInvariant
<1>5. CASE HashFails
  <2> USE <1>5 DEF HashFails
  <2>1. WalkIsComplete' /\ TempFilesOwned'
    BY DEF WalkIsComplete, TempFilesOwned
  <2> QED BY <2>1, WalkedKeepsInvariant
<1> QED BY <1>2, <1>3, <1>4, <1>5

\* UploadArtifact removes what it has deferred, or cannot.
LEMMA UploadKeepsInvariant ==
  ASSUME DirInv, Seal \/ SealFails \/ CloseSealedFails \/ SendFails
  PROVE  DirInv'
<1>1. /\ tmpFiles \union deferred \union stuck \subseteq {Zip, Enc}
      /\ listed \subseteq Entries /\ path \in {None, Zip}
      /\ WalkIsComplete /\ TempFilesOwned
  BY DEF DirInv, DirTypes
<1> USE <1>1 DEF walkVars, treeVars
<1>2. CASE Seal
  <2> USE <1>2 DEF Seal
  <2>1. WalkIsComplete' /\ TempFilesOwned'
    BY DEF WalkIsComplete, TempFilesOwned, Archived
  <2> QED BY <2>1, WalkedKeepsInvariant
<1>3. CASE SealFails \/ SendFails
  <2> USE <1>3 DEF SealFails, SendFails, Return
  <2>1. WalkIsComplete' /\ TempFilesOwned'
    BY DEF WalkIsComplete, TempFilesOwned
  <2> QED BY <2>1, WalkedKeepsInvariant
<1>4. CASE CloseSealedFails
  <2> USE <1>4 DEF CloseSealedFails
  <2>1. WalkIsComplete' /\ TempFilesOwned'
    BY DEF WalkIsComplete, TempFilesOwned
  <2> QED BY <2>1, WalkedKeepsInvariant
<1> QED BY <1>2, <1>3, <1>4

\* What is sent is the archive, which is complete.
LEMMA SendKeepsInvariant ==
  ASSUME DirInv, Send
  PROVE  DirInv'
<1> USE DEF DirInv, Send, Return, treeVars, walkVars, pullVars
<1>1. DirTypes'
  BY DEF DirTypes
<1>2. /\ BeforeWalk' /\ Sorted(archive)' /\ ListedIsNext' /\ WalkCovers'
      /\ WalkIsComplete' /\ TempFilesOwned'
  BY DEF BeforeWalk, Sorted, ListedIsNext, WalkCovers, WalkIsComplete, TempFilesOwned,
     Archived
<1>3. pull = "idle" /\ done = 0
  BY DEF PullAfterPush
<1>4. Len(archive) \in Nat
  BY DEF DirTypes
<1>5. PullAfterPush'
  BY <1>3, <1>4 DEF PullAfterPush
<1>6. UnpackInv' /\ UnpackFailsForAReason'
  BY <1>3 DEF UnpackInv, UnpackFailsForAReason
<1> QED BY <1>1, <1>2, <1>5, <1>6

-----------------------------------------------------------------------------
(* The pull *)

\* A step of the pull leaves the push as it is.
LEMMA PullFrame ==
  ASSUME DirInv, UNCHANGED <<treeVars, pushVars>>,
         dst' \in [Entries -> Contents], before' \in [Entries -> Contents],
         done' \in Nat, PullAfterPush', UnpackInv', UnpackFailsForAReason'
  PROVE  DirInv'
<1> USE DEF DirInv, treeVars, pushVars, walkVars, tmpVars
<1>1. DirTypes'
  BY DEF DirTypes
<1>2. /\ BeforeWalk' /\ Sorted(archive)' /\ ListedIsNext' /\ WalkCovers'
      /\ WalkIsComplete' /\ TempFilesOwned'
  BY DEF BeforeWalk, Sorted, ListedIsNext, WalkCovers, WalkIsComplete, TempFilesOwned,
     Archived
<1> QED BY <1>1, <1>2

\* An attempt begins with what earlier ones have left.
LEMMA StartUnpackKeepsInvariant ==
  ASSUME DirInv, StartUnpack
  PROVE  DirInv'
<1> USE DEF StartUnpack
<1>1. /\ dst \in [Entries -> Contents] /\ before' \in [Entries -> Contents]
      /\ Len(archive) \in Nat
  BY DEF DirInv, DirTypes
<1>2. PullAfterPush'
  BY <1>1 DEF DirInv, PullAfterPush, pushVars, walkVars
<1>3. UnpackInv' /\ UnpackFailsForAReason'
  BY DEF DirInv, UnpackInv, UnpackFailsForAReason, Unpacked, pushVars
<1> QED BY <1>1, <1>2, <1>3, PullFrame

\* Where an attempt is.
LEMMA AttemptState ==
  ASSUME DirInv, pull = "unpack"
  PROVE  /\ push = "ok" /\ stored = archive /\ stored \in Seq(Entries)
         /\ DOMAIN stored = 1 .. Len(stored) /\ Len(stored) \in Nat
         /\ done \in Nat /\ done <= Len(stored)
         /\ dst \in [Entries -> Contents] /\ before \in [Entries -> Contents]
         /\ done < Len(stored) =>
              /\ Current \in Entries /\ Current \in Archived(stored)
              /\ Current \notin Unpacked
              /\ Unpacked \subseteq Archived(stored)
<1>1. /\ push = "ok" /\ stored = archive /\ stored \in Seq(Entries)
      /\ done \in Nat /\ done <= Len(stored)
      /\ dst \in [Entries -> Contents] /\ before \in [Entries -> Contents]
  BY DEF DirInv, PullAfterPush, DirTypes
<1>2. DOMAIN stored = 1 .. Len(stored) /\ Len(stored) \in Nat
  BY <1>1
<1>3. ASSUME done < Len(stored)
      PROVE  /\ Current \in Entries /\ Current \in Archived(stored)
             /\ Current \notin Unpacked
             /\ Unpacked \subseteq Archived(stored)
  <2>1. done + 1 \in DOMAIN stored /\ (done + 1) - 1 = done /\ 1 .. done \subseteq DOMAIN stored
    BY <1>1, <1>2, <1>3
  <2>2. stored[done + 1] \notin {stored[j] : j \in 1 .. (done + 1) - 1}
    BY <1>1, <2>1 DEF DirInv, Sorted
  <2>3. Current \notin Unpacked
    BY <2>1, <2>2 DEF Unpacked, Current
  <2> QED BY <1>1, <2>1, <2>3 DEF Current, Archived, Unpacked
<1> QED BY <1>1, <1>2, <1>3

\* One more entry is in the destination, and none is lost.
LEMMA UnpackEntryKeepsInvariant ==
  ASSUME DirInv, UnpackEntry
  PROVE  DirInv'
<1> USE AttemptState DEF UnpackEntry, UnpackStep
<1>1. /\ UNCHANGED <<stored, push, archive>> /\ done' = done + 1
      /\ Current \in Entries /\ done \in Nat /\ dst \in [Entries -> Contents]
  BY DEF pushVars, walkVars
<1>2. dst' \in [Entries -> Contents] /\ dst'[Current] = "new"
      /\ \A e \in Entries \ {Current} : dst'[e] = dst[e]
  BY <1>1 DEF Contents
<1>3. PullAfterPush'
  BY <1>1 DEF DirInv, PullAfterPush
<1>4. Unpacked' = Unpacked \union {Current}
  <2>1. 1 .. done + 1 = 1 .. done \union {done + 1}
    BY <1>1
  <2> QED BY <1>1, <2>1 DEF Unpacked, Current
<1>5. Unpacked \subseteq Entries
  BY DEF Unpacked
<1>6. UnpackInv'
  <2>1. \A e \in Unpacked' : dst'[e] = "new"
    BY <1>2, <1>4, <1>5 DEF DirInv, UnpackInv
  <2>2. \A e \in Entries : before[e] # None => dst'[e] # None
    BY <1>1, <1>2, DirectoryAssumption DEF DirInv, UnpackInv
  <2>3. ASSUME tries = 1, NEW e \in Entries, dst'[e] # None
        PROVE  before[e] # None \/ e \in Unpacked'
    BY <1>1, <1>2, <1>4, <2>3, DirectoryAssumption DEF DirInv, UnpackInv
  <2>4. UNCHANGED <<tries, before>> /\ tries \in Nat /\ tries > 0
    BY DEF DirInv, UnpackInv
  <2> QED BY <2>1, <2>2, <2>3, <2>4 DEF UnpackInv
<1>7. UnpackFailsForAReason'
  BY DEF UnpackFailsForAReason
<1> QED BY <1>1, <1>2, <1>3, <1>6, <1>7, PullFrame

\* A failed attempt has to have a reason.
LEMMA FailedAttempt ==
  ASSUME DirInv, UnpackStep("err", faulted'), dst' \in [Entries -> Contents], UNCHANGED done,
         \A e \in Entries : dst[e] # None => dst'[e] # None,
         \/ faulted'
         \/ UNCHANGED dst /\ done < Len(stored) /\ InTheWay(Current)
         \/ Cardinality(Archived(stored) \ Dirs) > MaxOpen
  PROVE  DirInv'
<1> USE DEF UnpackStep
<1>1. UNCHANGED <<stored, push, archive, before>> /\ done \in Nat
      /\ before \in [Entries -> Contents]
  BY AttemptState DEF pushVars, walkVars
<1>2. PullAfterPush'
  BY <1>1, AttemptState DEF DirInv, PullAfterPush
<1>3. UnpackInv'
  BY <1>1 DEF DirInv, UnpackInv
<1>4. UnpackFailsForAReason'
  BY <1>1 DEF UnpackFailsForAReason, InTheWay, Current, Archived
<1> QED BY <1>1, <1>2, <1>3, <1>4, PullFrame

\* Entries of an archive are different from each other, so that the files that
\* are open and the next one are as many files of the archive.
LEMMA OpenFilesAreArchived ==
  ASSUME DirInv, pull = "unpack", done < Len(stored), Kind[Current] # "dir"
  PROVE  /\ OpenFiles < Cardinality(Archived(stored) \ Dirs)
         /\ OpenFiles \in Nat /\ Cardinality(Archived(stored) \ Dirs) \in Nat
<1> DEFINE Opened == {i \in 1 .. done : Kind[stored[i]] # "dir"}
           Needed == Opened \union {done + 1}
           Files == Archived(stored) \ Dirs
           f == [i \in Needed |-> stored[i]]
<1>1. /\ stored \in Seq(Entries) /\ DOMAIN stored = 1 .. Len(stored) /\ Len(stored) \in Nat
      /\ done \in Nat /\ Current \in Entries /\ Current \in Archived(stored)
      /\ Sorted(stored)
  BY AttemptState DEF DirInv
<1>2. Needed \subseteq 1 .. Len(stored) /\ done + 1 \notin Opened
  BY <1>1
<1>3. IsFiniteSet(Opened) /\ Cardinality(Opened) \in Nat
  <2>1. IsFiniteSet(1 .. done)
    BY <1>1, FS_Interval
  <2> QED BY <2>1, FS_Subset, FS_CardinalityType
<1>4. Cardinality(Needed) = Cardinality(Opened) + 1
  BY <1>2, <1>3, FS_AddElement
<1>5. IsFiniteSet(Files)
  <2> DEFINE g == [i \in 1 .. Len(stored) |-> stored[i]]
  <2>1. g \in Surjection(1 .. Len(stored), Archived(stored))
    BY <1>1 DEF Surjection, Archived
  <2>2. IsFiniteSet(1 .. Len(stored))
    BY <1>1, FS_Interval
  <2> HIDE DEF g
  <2>3. IsFiniteSet(Archived(stored))
    BY <2>1, <2>2, FS_Surjection
  <2> QED BY <2>3, FS_Subset
<1>6. \A i \in Needed : stored[i] \in Files
  BY <1>1, <1>2 DEF Archived, Dirs, Current
<1>7. \A i, j \in Needed : i < j => stored[i] # stored[j]
  <2> SUFFICES ASSUME NEW i \in Needed, NEW j \in Needed, i < j
               PROVE  stored[i] # stored[j]
    OBVIOUS
  <2>1. i \in 1 .. j - 1 /\ j \in DOMAIN stored
    BY <1>1, <1>2
  <2> QED BY <1>1, <2>1 DEF Sorted
<1>8. f \in Injection(Needed, Files)
  <2>1. \A i, j \in Needed : stored[i] = stored[j] => i = j
    BY <1>1, <1>2, <1>7
  <2> QED BY <1>6, <2>1 DEF Injection, IsInjective
<1> HIDE DEF f, Files, Needed
<1>9. Cardinality(Needed) <= Cardinality(Files)
  BY <1>5, <1>8, FS_Injection
<1>10. Cardinality(Files) \in Nat
  BY <1>5, FS_CardinalityType
<1>11. Cardinality(Opened) < Cardinality(Files)
  BY <1>3, <1>4, <1>9, <1>10
<1> QED BY <1>3, <1>10, <1>11 DEF OpenFiles, Files

\* An entry that cannot be made or opened is one for which there is no place,
\* or too many files are open.
LEMMA OpenFailsKeepsInvariant ==
  ASSUME DirInv, OpenFails
  PROVE  DirInv'
<1> USE DEF OpenFails
<1>1. pull = "unpack" /\ UnpackStep("err", faulted') /\ UNCHANGED <<dst, done>>
  BY DEF UnpackStep
<1>2. Current \in Entries /\ Current \in Archived(stored) /\ Current \notin Unpacked
      /\ dst \in [Entries -> Contents]
  BY <1>1, AttemptState
<1>3. CASE ~Writable(Current)
  <2>1. /\ before[Current] # None => dst[Current] # None
        /\ dst[Current] # None => before[Current] # None \/ tries # 1
        /\ tries \in Nat /\ tries > 0
    BY <1>1, <1>2 DEF DirInv, UnpackInv
  <2>2. InTheWay(Current)
    BY <1>2, <1>3, <2>1 DEF Writable, InTheWay, Dirs
  <2> QED BY <1>1, <1>2, <2>2, FailedAttempt
<1>4. CASE Kind[Current] # "dir" /\ ~(OpenFiles < MaxOpen)
  <2>1. /\ OpenFiles < Cardinality(Archived(stored) \ Dirs)
        /\ OpenFiles \in Nat /\ Cardinality(Archived(stored) \ Dirs) \in Nat
    BY <1>1, <1>4, OpenFilesAreArchived
  <2>2. Cardinality(Archived(stored) \ Dirs) > MaxOpen
    BY <1>4, <2>1, DirectoryAssumption
  <2> QED BY <1>1, <1>2, <2>2, FailedAttempt
<1> QED BY <1>3, <1>4 DEF MayOpen

\* The other steps of unpackArchive.
LEMMA UnpackKeepsInvariant ==
  ASSUME DirInv, Reject \/ UnpackFails \/ UnpackReturns
  PROVE  DirInv'
<1>1. pull = "unpack"
  BY DEF Reject, UnpackFails, UnpackReturns, UnpackStep
<1>2. /\ dst \in [Entries -> Contents] /\ before \in [Entries -> Contents] /\ done \in Nat
      /\ done < Len(stored) => Current \in Entries /\ Current \in Archived(stored)
  BY <1>1, AttemptState
<1>3. CASE Reject
  <2>1. InTheWay(Current) /\ done < Len(stored)
    BY <1>3 DEF Reject, InTheWay
  <2> QED BY <1>2, <1>3, <2>1, FailedAttempt DEF Reject, UnpackStep
<1>4. CASE UnpackFails
  <2>1. dst' \in [Entries -> Contents] /\ \A e \in Entries : dst[e] # None => dst'[e] # None
    BY <1>2, <1>4, DirectoryAssumption DEF UnpackFails, Contents
  <2> QED BY <1>4, <2>1, FailedAttempt DEF UnpackFails, UnpackStep
<1>5. CASE UnpackReturns
  <2> USE <1>5 DEF UnpackReturns, UnpackStep
  <2>1. UNCHANGED <<stored, push, archive, before, tries>>
    BY DEF pushVars, walkVars
  <2>2. PullAfterPush' /\ UnpackFailsForAReason'
    BY <1>1, <2>1 DEF DirInv, PullAfterPush, UnpackFailsForAReason
  <2>3. UnpackInv'
    BY <1>1, <2>1 DEF DirInv, UnpackInv, Unpacked
  <2> QED BY <1>2, <2>1, <2>2, <2>3, PullFrame
<1> QED BY <1>3, <1>4, <1>5

-----------------------------------------------------------------------------
(* Theorems *)

\* Pushes, pulls and changes of the directory keep the invariant.
THEOREM DirectoryInvariant == DirSpec => []DirInv
<1>1. DirInv /\ [DirNext]_dirVars => DirInv'
  <2> SUFFICES ASSUME DirInv, [DirNext]_dirVars PROVE DirInv'
    OBVIOUS
  <2>1. ASSUME NEW e \in Entries, Add(e) \/ Remove(e)
        PROVE  DirInv'
    <3>1. PICK entries \in SUBSET Entries : Change(entries)
      BY <2>1 DEF Add, Remove, DirInv, DirTypes
    <3> QED BY <3>1, ChangeKeepsInvariant
  <2>2. CASE StartWalk \/ Visit \/ CloseArchive
    BY <2>2, StartWalkKeepsInvariant, VisitKeepsInvariant, CloseArchiveKeepsInvariant
  <2>3. CASE StartFails \/ WalkFails \/ Hash \/ HashFails
    BY <2>3, PrepareKeepsInvariant
  <2>4. CASE Seal \/ SealFails \/ CloseSealedFails \/ SendFails
    BY <2>4, UploadKeepsInvariant
  <2>5. CASE Send
    BY <2>5, SendKeepsInvariant
  <2>6. CASE StartUnpack \/ UnpackEntry \/ OpenFails
    BY <2>6, StartUnpackKeepsInvariant, UnpackEntryKeepsInvariant, OpenFailsKeepsInvariant
  <2>7. CASE Reject \/ UnpackFails \/ UnpackReturns
    BY <2>7, UnpackKeepsInvariant
  <2>8. CASE UNCHANGED dirVars
    <3>1. /\ dst \in [Entries -> Contents] /\ before \in [Entries -> Contents] /\ done \in Nat
      BY DEF DirInv, DirTypes
    <3>2. PullAfterPush' /\ UnpackInv' /\ UnpackFailsForAReason'
      BY <2>8 DEF dirVars, pushVars, pullVars, walkVars, DirInv, PullAfterPush, UnpackInv,
         UnpackFailsForAReason, Unpacked, InTheWay, Current, Archived
    <3> QED BY <2>8, <3>1, <3>2, PullFrame DEF dirVars, pullVars
  <2> QED BY <2>1, <2>2, <2>3, <2>4, <2>5, <2>6, <2>7, <2>8 DEF DirNext
<1> QED BY <1>1, InitInvariant, PTL DEF DirSpec

\* Every variable keeps its type, and the archive has every entry once and
\* behind its directory, whatever happens to the directory.
THEOREM DirectoryTypesCorrect == DirSpec => []DirTypeOK
<1>1. DirInv => DirTypeOK
  <2> SUFFICES ASSUME DirInv PROVE DirTypeOK
    OBVIOUS
  <2>1. Archived(archive) \subseteq {e \in Entries : Kind[e] # "dirlink"}
    BY DEF DirInv, DirTypes, Archived
  <2>2. stored # None => done \in 0 .. Len(stored)
    BY DEF DirInv, DirTypes, PullAfterPush
  <2> QED BY <2>1, <2>2 DEF DirInv, DirTypes, Sorted, DirTypeOK, Contents
<1> QED BY <1>1, DirectoryInvariant, PTL

\* What a successful push has stored has every entry that was there all the
\* time that the directory was walked.
THEOREM StoredDirectoryIsComplete == DirSpec => []StoredIsComplete
<1>1. DirInv => StoredIsComplete
  BY DEF DirInv, WalkIsComplete, PullAfterPush, StoredIsComplete
<1> QED BY <1>1, DirectoryInvariant, PTL

\* A push that has returned leaves no temporary file that could be removed.
THEOREM PushCleansUp == DirSpec => []PushLeavesNothing
<1>1. DirInv => PushLeavesNothing
  BY DEF DirInv, TempFilesOwned, PushLeavesNothing
<1> QED BY <1>1, DirectoryInvariant, PTL

\* A successful pull has brought every entry of the archive.
THEOREM UnpackedDirectoryIsComplete == DirSpec => []UnpackedIsComplete
<1>1. DirInv => UnpackedIsComplete
  <2> SUFFICES ASSUME DirInv, pull = "ok", NEW i \in DOMAIN stored
               PROVE  dst[stored[i]] = "new"
    BY DEF UnpackedIsComplete, Archived
  <2>1. DOMAIN stored = 1 .. done
    BY DEF DirInv, DirTypes, PullAfterPush, UnpackInv
  <2> QED BY <2>1 DEF DirInv, UnpackInv, Unpacked
<1> QED BY <1>1, DirectoryInvariant, PTL

\* An attempt to unpack fails only for a fault of its own, for too many files, or
\* at an entry that was in the way before the first attempt or is a read-only
\* file that an earlier one has left.
THEOREM UnpackFailuresHaveReasons == DirSpec => []UnpackFailsForAReason
<1>1. DirInv => UnpackFailsForAReason
  BY DEF DirInv
<1> QED BY <1>1, DirectoryInvariant, PTL
=============================================================================
