--------------------- MODULE InstallerTransactionProofs ---------------------
(***************************************************************************)
(* For any number of commands, runs and interventions of the owner: no     *)
(* file the owner keeps ever loses its last name, every byte an            *)
(* interrupted transaction wrote is named by its journal, and an operation *)
(* the journal calls applied was confirmed on disk.                        *)
(*                                                                         *)
(* The argument for the owner's files: OwnerKeeps is inductive because it  *)
(* asks for a name that is not a staging name.  A command only ever        *)
(* removes staging names; the rollback and the exchange give every inode   *)
(* they touch another such name in the same step; and only the owner's own *)
(* steps give bytes up.                                                    *)
(*                                                                         *)
(* The argument for the journal: AtRest says what the journal and the disk *)
(* say of each other between commands, UnderWay what the command in hand   *)
(* carries in memory at each of its steps; together they are inductive.    *)
(***************************************************************************)
EXTENDS InstallerTransaction, SequenceTheorems, FiniteSetTheorems, TLAPS

Kept == TypeOK' /\ OwnerKeeps'
Sure == staged' \in {"shown", "other"} /\ run' \in Nat \ {0}

\* Only a new run moves the run, only the owner the proposal.
LEMMA StagedAndRun ==
  ASSUME IInv, Next
  PROVE  Sure
<1>1. staged \in {"shown", "other"} /\ run \in Nat \ {0} BY DEF IInv, TypeOK
<1>2. CASE NewRun BY <1>1, <1>2 DEF NewRun, Sure
<1>3. CASE OwnerRestages BY <1>1, <1>3 DEF OwnerRestages, helper, Sure
<1>4. CASE OwnerEdits \/ OwnerSaves \/ OwnerRemoves \/ OwnerMoves
  BY <1>1, <1>4 DEF OwnerEdits, OwnerSaves, OwnerRemoves, OwnerMoves, helper, Sure
<1>5. CASE ~(NewRun \/ OwnerRestages \/ OwnerEdits \/ OwnerSaves \/ OwnerRemoves \/ OwnerMoves)
  <2>1. run' = run /\ staged' = staged
    BY <1>5 DEF Next, Create, BeginCreate, Command, MakeParent, Look, StageFile,
       JournalIntent, CheckStaged, Link, LinkRefused, CheckLinked, Unlink, Observe,
       Record, Propose, Confirm, Recheck, Exchange, CheckSwapped, BeginRollback,
       Precheck, Seize, CheckSeized, EndRollback, Crash, disk
  <2> QED BY <1>1, <2>1 DEF Sure
<1> QED BY <1>2, <1>3, <1>4, <1>5

LEMMA Records ==
  ASSUME NEW f \in Inodes, NEW t \in {"plain", "hooked"}
  PROVE  Written(f, t) \in Inodes /\ GivenUp(f) \in Inodes
BY DEF Inodes, Written, GivenUp

\* Touching inodes moves times only.
LEMMA TouchedSound ==
  ASSUME TypeOK, NEW is
  PROVE  /\ Touched(is) \in Seq(Inodes) /\ DOMAIN Touched(is) = DOMAIN file
         /\ \A i \in DOMAIN file : Touched(is)[i].owner = file[i].owner
<1> DEFINE t == Touched(is)
<1>1. file \in Seq(Inodes) /\ DOMAIN file = 1..Len(file) /\ Len(file) \in Nat
  BY DEF TypeOK
<1>2. ASSUME NEW i \in DOMAIN file
      PROVE  t[i] \in Inodes /\ t[i].owner = file[i].owner
  <2>1. file[i] \in Inodes BY <1>1
  <2> QED BY <2>1 DEF Touched, Inodes
<1>3. t \in [1..Len(file) -> Inodes]
  BY <1>1, <1>2 DEF Touched
<1> QED BY <1>1, <1>2, <1>3 DEF Touched

\* A step that touches inodes and leaves every name of the owner's in place.
LEMMA NamesStay ==
  ASSUME IInv, Sure, NEW is, file' = Touched(is),
         \A n \in DOMAIN dir' : (n \in DOMAIN dir /\ dir'[n] = dir[n])
                                \/ dir'[n] \in DOMAIN file,
         \A n \in Mine : \E m \in Mine' : dir'[m] = dir[n]
  PROVE  Kept
<1>1. TypeOK /\ OwnerKeeps BY DEF IInv
<1>2. TypeOK' BY <1>1, TouchedSound DEF TypeOK, Sure
<1>3. ASSUME NEW i \in DOMAIN file', file'[i].owner
      PROVE  \E n \in Mine' : dir'[n] = i
  <2>1. i \in DOMAIN file /\ file[i].owner BY <1>1, <1>3, TouchedSound
  <2>2. PICK n \in Mine : dir[n] = i BY <1>1, <2>1 DEF OwnerKeeps
  <2> QED BY <2>2
<1> QED BY <1>2, <1>3 DEF Kept, OwnerKeeps

LEMMA DiskStays ==
  ASSUME IInv, Sure, dir' = dir, file' = file
  PROVE  Kept
<1>1. Mine' = Mine BY DEF Mine
<1> QED BY <1>1 DEF IInv, TypeOK, OwnerKeeps, Kept, Sure

\* A new inode of the installer, under a name that was free.
LEMMA NewInode ==
  ASSUME IInv, Sure, NEW new \in Inodes, ~new.owner, NEW name,
         name \notin Mine, file' = Append(file, new), dir' = With(name, Len(file'))
  PROVE  Kept
<1>1. TypeOK /\ OwnerKeeps BY DEF IInv
<1>2. /\ file \in Seq(Inodes) /\ Len(file) \in Nat /\ file' \in Seq(Inodes)
      /\ DOMAIN file = 1..Len(file) /\ DOMAIN file' = 1..Len(file) + 1
      /\ Len(file') = Len(file) + 1 /\ file'[Len(file) + 1] = new
      /\ \A i \in DOMAIN file : file'[i] = file[i]
  BY <1>1 DEF TypeOK
<1>3. /\ DOMAIN dir' = DOMAIN dir \cup {name} /\ dir'[name] = Len(file')
      /\ \A n \in DOMAIN dir : n # name => dir'[n] = dir[n]
  BY DEF With
<1>4. TypeOK' BY <1>1, <1>2, <1>3 DEF TypeOK, Sure
<1>5. \A n \in Mine : n \in Mine' /\ dir'[n] = dir[n]
  BY <1>3 DEF Mine
<1>6. ASSUME NEW i \in DOMAIN file', file'[i].owner
      PROVE  \E n \in Mine' : dir'[n] = i
  <2>1. i \in DOMAIN file /\ file[i].owner BY <1>2, <1>6
  <2>2. PICK n \in Mine : dir[n] = i BY <1>1, <2>1 DEF OwnerKeeps
  <2> QED BY <1>5, <2>2
<1> QED BY <1>4, <1>6 DEF Kept, OwnerKeeps

\* However a command ends, it only takes its own staging name.
LEMMA ExitSound ==
  ASSUME IInv, Sure, NEW to, Exit(to)
  PROVE  Kept
<1>1. CASE Creating /\ At(Stage(cmd)) # 0
  <2>1. file' = Touched({At(Stage(cmd))}) /\ dir' = Without(Stage(cmd))
    BY <1>1 DEF Exit, Cleaned
  <2>2. \A n \in Mine : n # Stage(cmd) BY DEF Mine, Stage
  <2>3. \A n \in DOMAIN dir' : n \in DOMAIN dir /\ dir'[n] = dir[n]
    BY <2>1 DEF Without
  <2>4. \A n \in Mine : n \in Mine' /\ dir'[n] = dir[n]
    BY <2>1, <2>2 DEF Mine, Without
  <2> QED BY <2>1, <2>3, <2>4, NamesStay
<1>2. CASE ~(Creating /\ At(Stage(cmd)) # 0)
  <2>1. file' = file BY <1>2 DEF Exit
  <2>2. CASE ~Creating BY <2>1, <2>2, DiskStays DEF Exit, Cleaned
  <2>3. CASE Creating /\ At(Stage(cmd)) = 0
    <3>1. dir' = Without(Stage(cmd)) BY <2>3 DEF Exit, Cleaned
    <3>2. \A n \in Mine : n # Stage(cmd) BY DEF Mine, Stage
    <3>3. \A n \in Mine : n \in Mine' /\ dir'[n] = dir[n]
      BY <3>1, <3>2 DEF Mine, Without
    <3>4. \A n \in DOMAIN dir' : n \in DOMAIN dir /\ dir'[n] = dir[n]
      BY <3>1 DEF Without
    <3>5. TypeOK' BY <2>1, <3>4 DEF IInv, TypeOK, Sure
    <3>6. OwnerKeeps'
      <4> SUFFICES ASSUME NEW i \in DOMAIN file', file'[i].owner
                   PROVE  \E n \in Mine' : dir'[n] = i
        BY DEF OwnerKeeps
      <4>1. PICK n \in Mine : dir[n] = i BY <2>1 DEF IInv, OwnerKeeps
      <4> QED BY <4>1, <3>3
    <3> QED BY <3>5, <3>6 DEF Kept
  <2> QED BY <1>2, <2>2, <2>3
<1> QED BY <1>1, <1>2

LEMMA FailSound ==
  ASSUME IInv, Sure, Fail
  PROVE  Kept
BY ExitSound DEF Fail

LEMMA SaveSound ==
  ASSUME IInv, Sure, NEW new, NEW to, Save(new, to)
  PROVE  Kept
BY DiskStays, FailSound DEF Save

LEMMA Free ==
  ASSUME IInv, NEW name, At(name) = 0
  PROVE  name \notin DOMAIN dir
BY DEF IInv, TypeOK, At

LEMMA Occupied ==
  ASSUME IInv, NEW name, At(name) # 0
  PROVE  name \in DOMAIN dir /\ dir[name] = At(name) /\ At(name) \in DOMAIN file
BY DEF IInv, TypeOK, At

-----------------------------------------------------------------------------
\* The steps of the commands.
LEMMA CreatingSound ==
  ASSUME IInv, Sure, Create \/ MakeParent \/ Look \/ StageFile \/ JournalIntent
                     \/ CheckStaged \/ Link \/ LinkRefused \/ CheckLinked
                     \/ Unlink \/ Observe \/ Record
  PROVE  Kept
<1>1. CASE Create BY <1>1, DiskStays DEF Create, BeginCreate, disk
<1>2. CASE MakeParent BY <1>2, SaveSound DEF MakeParent
<1>3. CASE Look BY <1>3, FailSound, ExitSound, DiskStays DEF Look
<1>4. CASE StageFile
  <2>1. CASE Fail BY <2>1, FailSound
  <2>2. CASE ~Fail
    <3>1. /\ file' = Append(file, New("payload", run))
          /\ dir' = With(Stage(cmd), Len(file'))
      BY <1>4, <2>2 DEF StageFile
    <3>2. New("payload", run) \in Inodes /\ ~New("payload", run).owner
      BY DEF IInv, TypeOK, New, Inodes
    <3>3. Stage(cmd) \notin Mine BY DEF Mine, Stage
    <3> QED BY <3>1, <3>2, <3>3, NewInode
  <2> QED BY <2>1, <2>2
<1>5. CASE JournalIntent BY <1>5, SaveSound DEF JournalIntent
<1>6. CASE CheckStaged BY <1>6, FailSound, DiskStays DEF CheckStaged
<1>7. CASE Link
  <2>1. file' = Touched({At(Stage(cmd))}) /\ dir' = With(Active, At(Stage(cmd)))
        /\ Active \notin DOMAIN dir
    BY <1>7, Free DEF Link
  <2>2. At(Stage(cmd)) \in DOMAIN file
    BY <1>7 DEF Link, At, IInv, TypeOK
  <2>3. \A n \in DOMAIN dir' : (n \in DOMAIN dir /\ dir'[n] = dir[n]) \/ dir'[n] \in DOMAIN file
    BY <2>1, <2>2 DEF With
  <2>4. \A n \in Mine : n \in Mine' /\ dir'[n] = dir[n]
    BY <2>1 DEF With, Mine
  <2> QED BY <2>1, <2>3, <2>4, NamesStay
<1>8. CASE LinkRefused BY <1>8, FailSound, ExitSound DEF LinkRefused
<1>9. CASE CheckLinked BY <1>9, FailSound, DiskStays DEF CheckLinked
<1>10. CASE Unlink BY <1>10, ExitSound DEF Unlink
<1>11. CASE Observe BY <1>11, FailSound, DiskStays DEF Observe
<1>12. CASE Record BY <1>12, SaveSound DEF Record
<1> QED BY <1>1, <1>2, <1>3, <1>4, <1>5, <1>6, <1>7, <1>8, <1>9, <1>10, <1>11, <1>12

LEMMA ExchangeSound ==
  ASSUME IInv, Sure, Propose \/ Confirm \/ Recheck \/ Exchange \/ CheckSwapped
  PROVE  Kept
<1>1. CASE Propose BY <1>1, DiskStays DEF Propose, disk
<1>2. CASE Confirm
  <2>1. CASE Fail BY <2>1, FailSound
  <2>2. CASE ~Fail
    <3>1. /\ file' = Append(file, New(staged, run))
          /\ dir' = With(Backup(cmd), Len(file'))
          /\ Backup(cmd) \notin DOMAIN dir
      BY <1>2, <2>2 DEF Confirm
    <3>2. New(staged, run) \in Inodes /\ ~New(staged, run).owner
      BY DEF IInv, TypeOK, New, Inodes
    <3>3. Backup(cmd) \notin Mine BY <3>1 DEF Mine
    <3> QED BY <3>1, <3>2, <3>3, NewInode
  <2> QED BY <2>1, <2>2
<1>3. CASE Recheck BY <1>3, FailSound, DiskStays DEF Recheck
<1>4. CASE Exchange
  <2>1. CASE Fail BY <2>1, FailSound
  <2>2. CASE ~Fail
    <3> DEFINE b == Backup(cmd)
    <3>1. /\ At(Active) # 0 /\ At(b) # 0
          /\ dir' = [dir EXCEPT ![Active] = At(b), ![b] = At(Active)]
          /\ file' = Touched({At(Active), At(b)})
      BY <1>4, <2>2 DEF Exchange
    <3>2. /\ Active \in DOMAIN dir /\ b \in DOMAIN dir /\ Active # b
          /\ dir[Active] = At(Active) /\ dir[b] = At(b)
          /\ At(Active) \in DOMAIN file /\ At(b) \in DOMAIN file
      BY <3>1, Occupied DEF Active, Backup
    <3>3. /\ DOMAIN dir' = DOMAIN dir
          /\ dir'[Active] = At(b) /\ dir'[b] = At(Active)
          /\ \A n \in DOMAIN dir : n # Active /\ n # b => dir'[n] = dir[n]
      BY <3>1, <3>2
    <3>4. \A n \in DOMAIN dir' : (n \in DOMAIN dir /\ dir'[n] = dir[n]) \/ dir'[n] \in DOMAIN file
      BY <3>2, <3>3
    <3>5. Active \in Mine' /\ b \in Mine' /\ \A n \in Mine : n \in Mine'
      BY <3>2, <3>3 DEF Mine, Active, Backup
    <3>6. \A n \in Mine : \E m \in Mine' : dir'[m] = dir[n]
      <4> SUFFICES ASSUME NEW n \in Mine PROVE \E m \in Mine' : dir'[m] = dir[n]
        OBVIOUS
      <4>1. n \in DOMAIN dir BY DEF Mine
      <4>2. CASE n = Active BY <4>2, <3>2, <3>3, <3>5
      <4>3. CASE n = b BY <4>3, <3>2, <3>3, <3>5
      <4>4. CASE n # Active /\ n # b BY <4>1, <4>4, <3>3, <3>5
      <4> QED BY <4>2, <4>3, <4>4
    <3> QED BY <3>1, <3>4, <3>6, NamesStay
  <2> QED BY <2>1, <2>2
<1>5. CASE CheckSwapped BY <1>5, FailSound, DiskStays DEF CheckSwapped
<1> QED BY <1>1, <1>2, <1>3, <1>4, <1>5

LEMMA RollbackSound ==
  ASSUME IInv, Sure, BeginRollback \/ Precheck \/ Seize \/ CheckSeized \/ EndRollback
  PROVE  Kept
<1>1. CASE BeginRollback BY <1>1, DiskStays DEF BeginRollback, disk
<1>2. CASE Precheck BY <1>2, DiskStays DEF Precheck, disk
<1>3. CASE Seize
  <2> DEFINE a == Aside(Last(undo).cmd)
  <2>1. CASE At(Active) = 0 \/ a \in DOMAIN dir
    BY <1>3, <2>1, DiskStays DEF Seize
  <2>2. CASE At(Active) # 0 /\ a \notin DOMAIN dir
    <3>1. /\ dir' = [n \in (DOMAIN dir \ {Active}) \cup {a} |->
                        IF n = a THEN At(Active) ELSE dir[n]]
          /\ file' = Touched({At(Active)})
      BY <1>3, <2>2 DEF Seize
    <3>2. /\ Active \in DOMAIN dir /\ dir[Active] = At(Active)
          /\ At(Active) \in DOMAIN file /\ Active # a
      BY <2>2, Occupied DEF Active, Aside
    <3>3. /\ DOMAIN dir' = (DOMAIN dir \ {Active}) \cup {a} /\ dir'[a] = At(Active)
          /\ \A n \in DOMAIN dir : n # Active => dir'[n] = dir[n]
      BY <3>1, <2>2
    <3>4. \A n \in DOMAIN dir' : (n \in DOMAIN dir /\ dir'[n] = dir[n]) \/ dir'[n] \in DOMAIN file
      BY <3>2, <3>3
    <3>5. a \in Mine' /\ \A n \in Mine : n # Active => n \in Mine'
      BY <3>3 DEF Mine, Aside
    <3>6. \A n \in Mine : \E m \in Mine' : dir'[m] = dir[n]
      <4> SUFFICES ASSUME NEW n \in Mine PROVE \E m \in Mine' : dir'[m] = dir[n]
        OBVIOUS
      <4>1. n \in DOMAIN dir BY DEF Mine
      <4>2. CASE n = Active BY <4>2, <3>2, <3>3, <3>5
      <4>3. CASE n # Active BY <4>1, <4>3, <3>3, <3>5
      <4> QED BY <4>2, <4>3
    <3> QED BY <3>1, <3>4, <3>6, NamesStay
  <2> QED BY <2>1, <2>2
<1>4. CASE CheckSeized
  <2> DEFINE a == Aside(Last(undo).cmd)
             back == /\ VerifyParent /\ At(a) # 0 /\ At(Active) = 0
                     /\ ~NamespaceMatches(Signature(a), held)
  <2>1. CASE ~back BY <1>4, <2>1, DiskStays DEF CheckSeized
  <2>2. CASE back
    <3>1. file' = Touched({At(a)}) /\ dir' = With(Active, At(a))
      BY <1>4, <2>2 DEF CheckSeized
    <3>2. Active \notin DOMAIN dir /\ At(a) \in DOMAIN file
      BY <2>2, Free, Occupied
    <3>3. \A n \in DOMAIN dir' : (n \in DOMAIN dir /\ dir'[n] = dir[n]) \/ dir'[n] \in DOMAIN file
      BY <3>1, <3>2 DEF With
    <3>4. \A n \in Mine : n \in Mine' /\ dir'[n] = dir[n]
      BY <3>1, <3>2 DEF With, Mine
    <3> QED BY <3>1, <3>3, <3>4, NamesStay
  <2> QED BY <2>1, <2>2
<1>5. CASE EndRollback BY <1>5, DiskStays DEF EndRollback, disk
<1> QED BY <1>1, <1>2, <1>3, <1>4, <1>5

-----------------------------------------------------------------------------
\* The steps of the owner.
LEMMA EditSound ==
  ASSUME IInv, Sure, OwnerEdits
  PROVE  Kept
<1>1. PICK n \in Mine, t \in {"plain", "hooked"} :
        file' = [file EXCEPT ![dir[n]] = Written(file[dir[n]], t)]
  BY DEF OwnerEdits
<1>2. dir' = dir /\ Mine' = Mine BY DEF OwnerEdits, Mine
<1>3. n \in DOMAIN dir /\ dir[n] \in DOMAIN file BY DEF Mine, IInv, TypeOK
<1>4. file \in Seq(Inodes) /\ file[dir[n]] \in Inodes BY <1>3 DEF IInv, TypeOK
<1>5. Written(file[dir[n]], t) \in Inodes BY <1>4, Records
<1>6. /\ file' \in Seq(Inodes) /\ DOMAIN file' = DOMAIN file
      /\ \A i \in DOMAIN file : i # dir[n] => file'[i] = file[i]
  BY <1>1, <1>3, <1>4, <1>5, ExceptSeq
<1>7. TypeOK' BY <1>2, <1>6 DEF IInv, TypeOK, Sure
<1>8. OwnerKeeps'
  <2> SUFFICES ASSUME NEW i \in DOMAIN file', file'[i].owner
               PROVE  \E m \in Mine' : dir'[m] = i
    BY DEF OwnerKeeps
  <2>1. CASE i = dir[n] BY <2>1, <1>2
  <2>2. CASE i # dir[n] BY <2>2, <1>2, <1>6 DEF IInv, OwnerKeeps
  <2> QED BY <2>1, <2>2
<1> QED BY <1>7, <1>8 DEF Kept

LEMMA SavesSound ==
  ASSUME IInv, Sure, OwnerSaves
  PROVE  Kept
<1> DEFINE old == [i \in DOMAIN file |->
                    IF i = At(Active) THEN GivenUp(file[i]) ELSE file[i]]
<1>1. PICK t \in {"plain", "hooked"} : file' = Append(old, New(t, 0))
  BY DEF OwnerSaves
<1>2. dir' = With(Active, Len(file')) BY DEF OwnerSaves
<1>3. file \in Seq(Inodes) /\ DOMAIN file = 1..Len(file) /\ Len(file) \in Nat
  BY DEF IInv, TypeOK
<1>4. ASSUME NEW i \in DOMAIN file PROVE old[i] \in Inodes
  <2>1. file[i] \in Inodes BY <1>3
  <2> QED BY <2>1, Records
<1>5. old \in [1..Len(file) -> Inodes] BY <1>3, <1>4
<1>6. old \in Seq(Inodes) /\ Len(old) = Len(file)
  <2>1. old \in Seq(Inodes) BY <1>3, <1>5, SeqDef
  <2>2. DOMAIN old = 1..Len(old) BY <2>1, LenProperties
  <2>3. DOMAIN old = 1..Len(file) BY <1>3
  <2> QED BY <1>3, <2>1, <2>2, <2>3, LenProperties
<1>7. New(t, 0) \in Inodes BY DEF New, Inodes
<1> HIDE DEF old
<1>8. /\ file' \in Seq(Inodes) /\ Len(file') = Len(file) + 1
      /\ DOMAIN file' = 1..Len(file) + 1
      /\ \A i \in DOMAIN file : file'[i] = old[i]
  BY <1>1, <1>3, <1>6, <1>7
<1>9. /\ DOMAIN dir' = DOMAIN dir \cup {Active} /\ dir'[Active] = Len(file')
      /\ \A n \in DOMAIN dir : n # Active => dir'[n] = dir[n]
  BY <1>2 DEF With
<1>10. TypeOK' BY <1>3, <1>8, <1>9 DEF IInv, TypeOK, Sure
<1>11. Active \in Mine' /\ \A n \in Mine : n \in Mine'
  BY <1>9 DEF Mine, Active
<1>12. OwnerKeeps'
  <2> SUFFICES ASSUME NEW i \in DOMAIN file', file'[i].owner
               PROVE  \E m \in Mine' : dir'[m] = i
    BY DEF OwnerKeeps
  <2>1. CASE i = Len(file') BY <2>1, <1>9, <1>11
  <2>2. CASE i # Len(file')
    <3>1. i \in DOMAIN file /\ file'[i] = old[i] BY <2>2, <1>3, <1>8
    <3>2. i # At(Active)
      <4> SUFFICES ASSUME i = At(Active) PROVE FALSE
        OBVIOUS
      <4>1. old[i] = GivenUp(file[i]) BY <3>1 DEF old
      <4>2. file[i] \in Inodes BY <1>3, <3>1
      <4>3. ~GivenUp(file[i]).owner BY DEF GivenUp
      <4> QED BY <3>1, <4>1, <4>3
    <3>3. file[i].owner BY <3>1, <3>2 DEF old
    <3>4. PICK n \in Mine : dir[n] = i BY <3>1, <3>3 DEF IInv, OwnerKeeps
    <3>5. n \in DOMAIN dir BY DEF Mine
    <3>6. n # Active BY <3>2, <3>4, <3>5 DEF At
    <3> QED BY <3>4, <3>5, <3>6, <1>9, <1>11
  <2> QED BY <2>1, <2>2
<1> QED BY <1>10, <1>12 DEF Kept

LEMMA RemoveSound ==
  ASSUME IInv, Sure, OwnerRemoves
  PROVE  Kept
<1>1. PICK n \in Mine : /\ dir' = Without(n)
         /\ file' = [file EXCEPT ![dir[n]] = GivenUp(file[dir[n]])]
  BY DEF OwnerRemoves
<1>2. n \in DOMAIN dir /\ dir[n] \in DOMAIN file BY DEF Mine, IInv, TypeOK
<1>3. file \in Seq(Inodes) /\ file[dir[n]] \in Inodes BY <1>2 DEF IInv, TypeOK
<1>4. GivenUp(file[dir[n]]) \in Inodes /\ ~GivenUp(file[dir[n]]).owner
  <2>1. GivenUp(file[dir[n]]) \in Inodes BY <1>3, Records
  <2> QED BY <2>1 DEF GivenUp
<1>5. /\ file' \in Seq(Inodes) /\ DOMAIN file' = DOMAIN file
      /\ \A i \in DOMAIN file : i # dir[n] => file'[i] = file[i]
      /\ ~file'[dir[n]].owner
  BY <1>1, <1>2, <1>3, <1>4, ExceptSeq
<1>6. /\ DOMAIN dir' = DOMAIN dir \ {n}
      /\ \A m \in DOMAIN dir : m # n => dir'[m] = dir[m]
  BY <1>1 DEF Without
<1>7. TypeOK' BY <1>5, <1>6 DEF IInv, TypeOK, Sure
<1>8. OwnerKeeps'
  <2> SUFFICES ASSUME NEW i \in DOMAIN file', file'[i].owner
               PROVE  \E m \in Mine' : dir'[m] = i
    BY DEF OwnerKeeps
  <2>1. i # dir[n] /\ i \in DOMAIN file /\ file[i].owner BY <1>5
  <2>2. PICK m \in Mine : dir[m] = i BY <2>1 DEF IInv, OwnerKeeps
  <2>3. m # n /\ m \in DOMAIN dir BY <2>1, <2>2 DEF Mine
  <2>4. m \in Mine' BY <2>2, <2>3, <1>6 DEF Mine
  <2> QED BY <2>2, <2>3, <2>4, <1>6
<1> QED BY <1>7, <1>8 DEF Kept

-----------------------------------------------------------------------------
\* The inductive invariant: the disk is well formed and the owner's bytes have a name.
LEMMA Invariance == Spec => []IInv
<1>1. Init => IInv
  <2> SUFFICES ASSUME Init PROVE IInv
    OBVIOUS
  <2>1. CASE dir = <<>> /\ file = <<>>
    BY <2>1 DEF Init, IInv, TypeOK, OwnerKeeps
  <2>2. CASE dir = [n \in {Active} |-> 1] /\ \E t \in {"plain", "hooked"} : file = <<New(t, 0)>>
    <3>1. DOMAIN dir = {Active} /\ dir[Active] = 1 BY <2>2
    <3>2. PICK t \in {"plain", "hooked"} : file = <<New(t, 0)>> BY <2>2
    <3>3. New(t, 0) \in Inodes BY DEF New, Inodes
    <3>4. file \in Seq(Inodes) /\ DOMAIN file = {1} BY <3>2, <3>3
    <3>5. Active \in Mine BY <3>1 DEF Mine, Active
    <3> QED BY <3>1, <3>4, <3>5 DEF Init, IInv, TypeOK, OwnerKeeps
  <2> QED BY <2>1, <2>2 DEF Init
<1>2. IInv /\ [Next]_vars => IInv'
  <2> SUFFICES ASSUME IInv, [Next]_vars PROVE IInv'
    OBVIOUS
  <2>1. CASE UNCHANGED vars
    BY <2>1 DEF vars, IInv, TypeOK, OwnerKeeps, Mine
  <2>2. CASE Next
    <3>1. Sure BY <2>2, StagedAndRun
    <3>2. ASSUME Crash \/ NewRun PROVE Kept
      <4>1. dir' = dir /\ file' = file BY <3>2 DEF Crash, NewRun, disk
      <4> QED BY <3>1, <4>1, DiskStays
    <3>3. ASSUME OwnerMoves \/ OwnerRestages PROVE Kept
      <4>1. dir' = dir /\ file' = file BY <3>3 DEF OwnerMoves, OwnerRestages
      <4> QED BY <3>1, <4>1, DiskStays
    <3>4. Kept BY <2>2, <3>1, <3>2, <3>3, CreatingSound, ExchangeSound, RollbackSound,
                  EditSound, SavesSound, RemoveSound DEF Next
    <3> QED BY <3>4 DEF Kept, IInv
  <2> QED BY <2>1, <2>2
<1> QED BY <1>1, <1>2, PTL DEF Spec

\* The owner's files are never lost: no step of a command, of a rollback or of a
\* failing save takes the last name of bytes the owner wrote.
THEOREM OwnerIsKept == Spec => []OwnerKeeps
BY Invariance, PTL DEF IInv

-----------------------------------------------------------------------------
(* What is on record.  The argument: the only names that reach the target    *)
(* are the staging or recovery name of the command itself, and their inode   *)
(* was written to the journal before; the rollback only moves what had the   *)
(* target name.  An exchange is recorded as applied by looking at both names *)
(* afterwards: that this says what was exchanged needs that times of an      *)
(* inode never go back, and that nobody gives an inode a second name.        *)

Kinds == {"copy", "hook", "exchange"}
Sigs == [inode : Nat, mtime : Nat, ctime : Nat, nlink : Nat]
Ops == [kind : Kinds, cmd : Nat, status : {"pending", "published", "applied"},
        old : Sigs \cup {Nothing}, new : Sigs]
Journals == [ops : Seq(Ops), made : BOOLEAN]
UpTo(j, c) == \A op \in ToSet(j.ops) : op.cmd <= c
Recorded(j) == {op.new.inode : op \in ToSet(j.ops)}

JournalType ==
  /\ IsFiniteSet(DOMAIN dir) /\ cmd \in Nat
  /\ mem \in Journals /\ UpTo(mem, cmd)
  /\ journal \in Journals /\ UpTo(journal, cmd)
  /\ \A i \in DOMAIN file : file[i].run <= run

\* A file of this run that has the target name, or had it, is on record.
Trail ==
  \A n \in DOMAIN dir :
    n[1] \in {"active", "aside"} /\ file[dir[n]].run = run => dir[n] \in Recorded(journal)

MadeIsKept == made => \E j \in Evidence : j.made

Confirmed(j) ==
  \A op \in ToSet(j.ops) : op.status = "applied" /\ op.cmd = cmd =>
    /\ NamespaceMatches(swap.out, op.old)
    /\ swap.in.inode = op.new.inode /\ swap.in.mtime = op.new.mtime

NoneApplied(j) == \A op \in ToSet(j.ops) : op.cmd = cmd => op.status # "applied"

\* The steps at which a command is under way.
Creation == {"mkdir", "look", "stage", "check", "link", "linked", "unlink", "observe"}
Exchanging == {"confirm", "recheck", "swap", "swapped"}
Busy == Creation \cup Exchanging \cup {"journal", "record"}

KindSound ==
  /\ pc \in Creation => kind \in {"copy", "hook"}
  /\ pc \in Exchanging => kind = "exchange"
  /\ pc \in {"journal", "record"} => kind \in Kinds

\* The journal in memory is ahead of the one on disk by at most the own operation.
MemSound ==
  /\ pc \in Busy =>
       (journal.made => mem.made) /\ Recorded(journal) \subseteq Recorded(mem) /\ Confirmed(mem)
  /\ pc \in Busy \ {"journal", "record"} => mem = journal
  /\ pc \in Busy \ {"record"} => NoneApplied(mem) /\ NoneApplied(journal)

OwnOp(new) ==
  /\ mem.ops # <<>> /\ Last(mem.ops).cmd = cmd /\ Last(mem.ops).status = "pending"
  /\ Last(mem.ops).new = new /\ new.inode \in DOMAIN file

\* The staged inode has no other name than the staging name.
OnlyStaged ==
  /\ \A n \in DOMAIN dir : dir[n] = held.inode => n = Stage(cmd)
  /\ Stage(cmd) \in DOMAIN dir => dir[Stage(cmd)] = held.inode

CreatePhase ==
  /\ pc \in {"journal", "check", "link", "linked", "unlink", "observe"} /\ kind # "exchange"
       => held \in Sigs /\ OwnOp(held)
  /\ pc \in {"journal", "check", "link"} /\ kind # "exchange" => OnlyStaged

OldSeen ==
  /\ held = [old |-> held.old, new |-> held.new]
  /\ held.old \in Sigs /\ held.old.nlink = 1 /\ held.old.inode \in DOMAIN file
  /\ held.old.mtime <= file[held.old.inode].mtime

NewMade ==
  /\ OwnOp(held.new) /\ Last(mem.ops).old = held.old
  /\ held.new \in Sigs /\ held.new.mtime = 0

OldIsTarget == \A n \in DOMAIN dir : dir[n] = held.old.inode => n = Active

\* What was exchanged, and that it can be told from what is seen afterwards.
SwapSeen ==
  /\ swap.out \in Sigs /\ swap.in \in Sigs
  /\ swap.out.inode \in DOMAIN file /\ swap.out.mtime <= file[swap.out.inode].mtime
  /\ Backup(cmd) \in DOMAIN dir => dir[Backup(cmd)] = swap.out.inode
  /\ swap.out.inode = held.old.inode => swap.out.nlink = 1 /\ held.old.mtime <= swap.out.mtime
  /\ swap.in.inode = held.new.inode /\ swap.in.mtime <= file[held.new.inode].mtime

ExchangePhase ==
  /\ pc \in Exchanging \cup {"journal"} /\ kind = "exchange" => OldSeen
  /\ pc \in {"journal", "recheck", "swap", "swapped"} /\ kind = "exchange" => NewMade
  /\ pc \in {"journal", "recheck", "swap"} /\ kind = "exchange" =>
       (Backup(cmd) \in DOMAIN dir => dir[Backup(cmd)] = held.new.inode)
  /\ pc = "swap" => OldIsTarget
  /\ pc = "swapped" => SwapSeen

\* The part that holds at rest too, and the part of a command under way.
AtRest == JournalType /\ Trail /\ MadeIsKept /\ Confirmed(journal)
UnderWay == KindSound /\ MemSound /\ CreatePhase /\ ExchangePhase
JInv == AtRest /\ UnderWay

(* Sequences of operations, and what is read of an inode.                    *)

LEMMA Appended ==
  ASSUME NEW S, NEW s \in Seq(S), NEW e \in S
  PROVE  /\ Append(s, e) \in Seq(S) /\ Append(s, e) # <<>>
         /\ ToSet(Append(s, e)) = ToSet(s) \cup {e} /\ Last(Append(s, e)) = e
<1> DEFINE t == Append(s, e)
<1>1. /\ t \in Seq(S) /\ Len(t) = Len(s) + 1 /\ t[Len(s) + 1] = e
      /\ Len(s) \in Nat /\ DOMAIN s = 1..Len(s) /\ DOMAIN t = 1..(Len(s) + 1)
      /\ \A i \in 1..Len(s) : t[i] = s[i]
  OBVIOUS
<1>2. ToSet(t) = ToSet(s) \cup {e}
  <2>1. \A i \in DOMAIN t : i \in DOMAIN s \/ i = Len(s) + 1
    BY <1>1
  <2>2. Len(s) + 1 \in DOMAIN t /\ \A i \in DOMAIN s : i \in DOMAIN t
    BY <1>1
  <2> HIDE DEF t
  <2> QED
    BY <1>1, <2>1, <2>2 DEF ToSet
<1> HIDE DEF t
<1>3. Last(t) = e /\ t # <<>>
  BY <1>1 DEF Last
<1> QED
  BY <1>1, <1>2, <1>3 DEF t

LEMMA FrontAndLast ==
  ASSUME NEW S, NEW s \in Seq(S), s # <<>>
  PROVE  /\ Front(s) \in Seq(S) /\ Last(s) \in S /\ Last(s) = s[Len(s)] /\ Len(s) \in DOMAIN s
         /\ ToSet(s) = ToSet(Front(s)) \cup {Last(s)} /\ Last(s) \in ToSet(s)
<1>1. Len(s) \in Nat /\ Len(s) > 0 /\ DOMAIN s = 1..Len(s) /\ \A i \in 1..Len(s) : s[i] \in S
  OBVIOUS
<1>2. Front(s) \in Seq(S) /\ DOMAIN Front(s) = 1..(Len(s) - 1)
      /\ \A i \in 1..(Len(s) - 1) : Front(s)[i] = s[i]
  BY <1>1 DEF Front
<1>3. \A i \in DOMAIN s : i \in 1..(Len(s) - 1) \/ i = Len(s)
  BY <1>1
<1>4. Len(s) \in DOMAIN s /\ \A i \in 1..(Len(s) - 1) : i \in DOMAIN s
  BY <1>1
<1> QED
  BY <1>1, <1>2, <1>3, <1>4 DEF Last, ToSet

LEMMA LastReplaced ==
  ASSUME NEW S, NEW s \in Seq(S), s # <<>>, NEW e \in S
  PROVE  /\ [s EXCEPT ![Len(s)] = e] \in Seq(S)
         /\ ToSet([s EXCEPT ![Len(s)] = e]) = ToSet(Front(s)) \cup {e}
<1> DEFINE t == [s EXCEPT ![Len(s)] = e]
<1>1. Len(s) \in Nat /\ Len(s) > 0 /\ DOMAIN s = 1..Len(s)
  OBVIOUS
<1>2. DOMAIN t = DOMAIN s /\ t[Len(s)] = e /\ \A i \in 1..(Len(s) - 1) : t[i] = s[i]
  <2>1. Len(s) \in DOMAIN s
    BY <1>1
  <2>2. ASSUME NEW i \in 1..(Len(s) - 1)
        PROVE  i \in DOMAIN s /\ i # Len(s)
    <3> DEFINE n == Len(s)
    <3>1. n \in Nat /\ i \in 1..(n - 1) /\ DOMAIN s = 1..n
      BY <1>1
    <3> HIDE DEF n
    <3>2. i \in 1..n /\ i # n
      BY <3>1
    <3> QED
      BY <3>1, <3>2 DEF n
  <2> QED
    BY <2>1, <2>2
<1>3. t \in Seq(S)
  BY <1>1, ExceptSeq
<1>4. DOMAIN Front(s) = 1..(Len(s) - 1) /\ \A i \in 1..(Len(s) - 1) : Front(s)[i] = s[i]
  BY <1>1 DEF Front
<1>5. \A i \in DOMAIN s : i \in 1..(Len(s) - 1) \/ i = Len(s)
  BY <1>1
<1>6. Len(s) \in DOMAIN s /\ \A i \in 1..(Len(s) - 1) : i \in DOMAIN s
  BY <1>1
<1> HIDE DEF t
<1>7. ToSet(t) = ToSet(Front(s)) \cup {e}
  BY <1>2, <1>4, <1>5, <1>6 DEF ToSet
<1> QED
  BY <1>3, <1>7 DEF t

LEMMA IdentityType ==
  ASSUME IInv, IsFiniteSet(DOMAIN dir), NEW i \in DOMAIN file
  PROVE  /\ Identity(i) \in Sigs /\ Identity(i).inode = i /\ Identity(i).mtime = file[i].mtime
         /\ Identity(i).nlink = Links(i)
<1>1. Links(i) \in Nat
  <2>1. {n \in DOMAIN dir : dir[n] = i} \in SUBSET DOMAIN dir
    OBVIOUS
  <2> QED
    BY <2>1, FS_Subset, FS_CardinalityType DEF Links
<1>2. file[i] \in Inodes /\ i \in Nat
  BY DEF IInv, TypeOK
<1> QED
  BY <1>1, <1>2 DEF Identity, Sigs, Inodes

\* A disk step that gives no inode of the installer a new name.
DiskSteady ==
  /\ \A n \in DOMAIN dir' : \/ n \in DOMAIN dir /\ dir'[n] = dir[n]
                            \/ n = Active /\ dir'[n] \in DOMAIN file' \ DOMAIN file
  /\ \A i \in DOMAIN file : /\ i \in DOMAIN file' /\ file'[i].run = file[i].run
                            /\ file'[i].mtime \in Nat /\ file[i].mtime <= file'[i].mtime
  /\ \A i \in DOMAIN file' \ DOMAIN file : file'[i].run = 0

LEMMA TouchedTimes ==
  ASSUME IInv, NEW is, file' = Touched(is)
  PROVE  /\ DOMAIN file' = DOMAIN file
         /\ \A i \in DOMAIN file : file'[i].run = file[i].run /\ file'[i].mtime = file[i].mtime
<1>1. ASSUME NEW i \in DOMAIN file
      PROVE  file[i] \in Inodes
  BY DEF IInv, TypeOK
<1> QED
  BY <1>1 DEF Touched, Inodes

LEMMA TimesAreCounts ==
  ASSUME IInv, NEW i \in DOMAIN file
  PROVE  file[i].mtime \in Nat /\ file[i].run \in Nat /\ i \in Nat /\ i # 0
<1>1. file \in Seq(Inodes)
  BY DEF IInv, TypeOK
<1>2. DOMAIN file = 1..Len(file) /\ Len(file) \in Nat /\ file[i] \in Inodes
  BY <1>1
<1> QED
  BY <1>2 DEF Inodes

LEMMA SameDiskIsSteady ==
  ASSUME IInv, dir' = dir, file' = file
  PROVE  DiskSteady
BY TimesAreCounts DEF DiskSteady

LEMMA ExitIsSteady ==
  ASSUME IInv, NEW to, Exit(to)
  PROVE  DiskSteady
<1>1. \A n \in DOMAIN dir' : n \in DOMAIN dir /\ dir'[n] = dir[n]
  BY DEF Exit, Cleaned, Without
<1>2. CASE file' = file
  BY <1>1, <1>2, TimesAreCounts DEF DiskSteady
<1>3. CASE file' = Touched({At(Stage(cmd))})
  <2>1. /\ DOMAIN file' = DOMAIN file
        /\ \A i \in DOMAIN file : file'[i].run = file[i].run /\ file'[i].mtime = file[i].mtime
    BY <1>3, TouchedTimes
  <2>2. \A i \in DOMAIN file : file[i].mtime \in Nat
    BY TimesAreCounts
  <2>3. \A i \in DOMAIN file : file'[i].mtime \in Nat /\ file[i].mtime <= file'[i].mtime
    BY <2>1, <2>2
  <2> QED
    BY <1>1, <2>1, <2>3 DEF DiskSteady
<1> QED
  BY <1>2, <1>3 DEF Exit

LEMMA FailIsSteady ==
  ASSUME IInv, Fail
  PROVE  DiskSteady /\ pc' \notin Busy
<1>1. DiskSteady
  BY ExitIsSteady DEF Fail
<1> QED
  BY <1>1 DEF Fail, Exit, Busy, Creation, Exchanging

\* A disk step that brings no inode to the target name, or to a name of the
\* rollback, but those that were there, those on record and those of the owner.
DiskTraced ==
  /\ IsFiniteSet(DOMAIN dir')
  /\ \A n \in DOMAIN dir' : n[1] \in {"active", "aside"} =>
       \/ \E m \in DOMAIN dir : m[1] \in {"active", "aside"} /\ dir'[n] = dir[m]
       \/ dir'[n] \in Recorded(journal)
       \/ dir'[n] \in DOMAIN file' \ DOMAIN file /\ file'[dir'[n]].run = 0
  /\ \A i \in DOMAIN file : i \in DOMAIN file' /\ file'[i].run = file[i].run
  /\ \A i \in DOMAIN file' \ DOMAIN file : file'[i].run <= run

LEMMA SteadyIsTraced ==
  ASSUME IInv, AtRest, DiskSteady
  PROVE  DiskTraced
<1>1. IsFiniteSet(DOMAIN dir')
  <2>1. DOMAIN dir' \in SUBSET (DOMAIN dir \cup {Active})
    BY DEF DiskSteady
  <2>2. IsFiniteSet(DOMAIN dir \cup {Active})
    BY FS_AddElement DEF AtRest, JournalType
  <2> QED
    BY <2>1, <2>2, FS_Subset
<1>2. \A i \in DOMAIN file' \ DOMAIN file : file'[i].run <= run
  BY DEF DiskSteady, IInv, TypeOK
<1> QED
  BY <1>1, <1>2 DEF DiskSteady, DiskTraced

\* What holds at rest, kept by a traced step that drops nothing from the journal.
LEMMA RestStays ==
  ASSUME IInv, AtRest, DiskSteady \/ DiskTraced, run' = run, cmd' = cmd, swap' = swap,
         made' = made \/ MadeIsKept', kept \subseteq kept', mem' \in Journals, UpTo(mem', cmd),
         journal' \in Journals, UpTo(journal', cmd), journal.made => journal'.made,
         Recorded(journal) \subseteq Recorded(journal'), Confirmed(journal')
  PROVE  AtRest'
<1>1. DiskTraced
  BY SteadyIsTraced
<1>2. \A i \in DOMAIN file' : file'[i].run <= run
  BY <1>1 DEF AtRest, JournalType, DiskTraced
<1>3. JournalType'
  BY <1>1, <1>2 DEF AtRest, JournalType, UpTo, DiskTraced
<1>4. Trail'
  <2> SUFFICES ASSUME NEW n \in DOMAIN dir', n[1] \in {"active", "aside"}, file'[dir'[n]].run = run
               PROVE  dir'[n] \in Recorded(journal')
    BY DEF Trail, Recorded
  <2>1. CASE \E m \in DOMAIN dir : m[1] \in {"active", "aside"} /\ dir'[n] = dir[m]
    <3>1. PICK m \in DOMAIN dir : m[1] \in {"active", "aside"} /\ dir'[n] = dir[m]
      BY <2>1
    <3>2. dir[m] \in DOMAIN file
      BY <3>1 DEF IInv, TypeOK
    <3> QED
      BY <1>1, <3>1, <3>2 DEF AtRest, Trail, DiskTraced
  <2>2. CASE dir'[n] \in DOMAIN file' \ DOMAIN file /\ file'[dir'[n]].run = 0
    BY <2>2 DEF IInv, TypeOK
  <2> QED
    BY <1>1, <2>1, <2>2 DEF DiskTraced
<1>5. MadeIsKept'
  BY DEF AtRest, MadeIsKept, Evidence
<1>6. Confirmed(journal)'
  BY DEF Confirmed
<1> QED
  BY <1>3, <1>4, <1>5, <1>6 DEF AtRest

\* The common case: neither journal changes.
LEMMA RestStaysSame ==
  ASSUME IInv, AtRest, DiskSteady, run' = run, cmd' = cmd, swap' = swap, made' = made,
         kept' = kept, mem' = mem, journal' = journal
  PROVE  AtRest'
BY RestStays DEF AtRest, JournalType

\* A command that gives control back has nothing under way.
LEMMA NothingUnderWay ==
  ASSUME pc' \notin Busy
  PROVE  UnderWay'
BY DEF UnderWay, KindSound, MemSound, CreatePhase, ExchangePhase, Busy, Creation, Exchanging

\* What the owner does between two system calls disturbs no command under way.
LEMMA OwnerIsSteady ==
  ASSUME IInv, OwnerEdits \/ OwnerSaves \/ OwnerRemoves \/ OwnerMoves \/ OwnerRestages
  PROVE  DiskSteady /\ UNCHANGED <<made, pc, kind, cmd, run, mem, journal, kept, held, swap>>
<1>1. UNCHANGED <<made, pc, kind, cmd, run, mem, journal, kept, held, swap>>
  BY DEF OwnerEdits, OwnerSaves, OwnerRemoves, OwnerMoves, OwnerRestages, helper
<1>2. CASE OwnerEdits
  <2>1. PICK n \in Mine, t \in {"plain", "hooked"} :
          file' = [file EXCEPT ![dir[n]] = Written(file[dir[n]], t)]
    BY <1>2 DEF OwnerEdits
  <2>2. n \in DOMAIN dir /\ dir[n] \in DOMAIN file
    BY DEF Mine, IInv, TypeOK
  <2>3. /\ Written(file[dir[n]], t).run = file[dir[n]].run
        /\ Written(file[dir[n]], t).mtime = file[dir[n]].mtime + 1
    BY DEF Written
  <2>4. DOMAIN file' = DOMAIN file
    BY <2>1
  <2>5. ASSUME NEW i \in DOMAIN file
        PROVE  /\ file'[i].run = file[i].run
               /\ file'[i].mtime \in Nat /\ file[i].mtime <= file'[i].mtime
    <3>1. file'[i] = IF i = dir[n] THEN Written(file[dir[n]], t) ELSE file[i]
      BY <2>1
    <3> HIDE DEF Written
    <3> QED
      BY <2>3, <3>1, TimesAreCounts
  <2> QED
    BY <1>1, <1>2, <2>4, <2>5 DEF OwnerEdits, DiskSteady
<1>3. CASE OwnerSaves
  <2> DEFINE old == [i \in DOMAIN file |->
                      IF i = At(Active) THEN GivenUp(file[i]) ELSE file[i]]
  <2>1. PICK t \in {"plain", "hooked"} : file' = Append(old, New(t, 0))
    BY <1>3 DEF OwnerSaves
  <2>2. dir' = With(Active, Len(file'))
    BY <1>3 DEF OwnerSaves
  <2>3. file \in Seq(Inodes) /\ DOMAIN file = 1..Len(file) /\ Len(file) \in Nat
    BY DEF IInv, TypeOK
  <2>4. old \in Seq(Inodes) /\ Len(old) = Len(file)
    <3>1. \A i \in DOMAIN file : old[i] \in Inodes
      <4>1. \A i \in DOMAIN file : file[i] \in Inodes
        BY <2>3
      <4> QED
        BY <4>1, Records
    <3>2. old \in [1..Len(file) -> Inodes]
      BY <2>3, <3>1
    <3>3. old \in Seq(Inodes)
      BY <2>3, <3>2, SeqDef
    <3>4. DOMAIN old = 1..Len(old) /\ DOMAIN old = 1..Len(file)
      BY <2>3, <3>3, LenProperties
    <3> QED
      BY <2>3, <3>3, <3>4, LenProperties
  <2>5. \A i \in DOMAIN file : old[i].run = file[i].run /\ old[i].mtime = file[i].mtime
    BY DEF GivenUp
  <2>6. New(t, 0) \in Inodes /\ New(t, 0).run = 0
    BY DEF New, Inodes
  <2> HIDE DEF old
  <2>7. /\ Len(file') = Len(file) + 1 /\ DOMAIN file' = 1..(Len(file) + 1)
        /\ file'[Len(file) + 1] = New(t, 0)
        /\ \A i \in DOMAIN file : file'[i] = old[i]
    BY <2>1, <2>3, <2>4, <2>6
  <2>8. \A n \in DOMAIN dir' : \/ n \in DOMAIN dir /\ dir'[n] = dir[n]
                               \/ n = Active /\ dir'[n] \in DOMAIN file' \ DOMAIN file
    <3>1. Len(file') \in DOMAIN file' \ DOMAIN file
      BY <2>3, <2>7
    <3> QED
      BY <2>2, <3>1 DEF With
  <2>9. \A i \in DOMAIN file : /\ i \in DOMAIN file' /\ file'[i].run = file[i].run
                               /\ file'[i].mtime \in Nat /\ file[i].mtime <= file'[i].mtime
    <3>1. \A i \in DOMAIN file : i \in DOMAIN file'
      BY <2>3, <2>7
    <3> QED
      BY <2>5, <2>7, <3>1, TimesAreCounts
  <2>10. \A i \in DOMAIN file' \ DOMAIN file : file'[i].run = 0
    <3>1. \A i \in DOMAIN file' \ DOMAIN file : i = Len(file) + 1
      BY <2>3, <2>7
    <3> QED
      BY <2>6, <2>7, <3>1
  <2> QED
    BY <1>1, <2>8, <2>9, <2>10 DEF DiskSteady
<1>4. CASE OwnerRemoves
  <2>1. PICK n \in Mine : /\ dir' = Without(n)
           /\ file' = [file EXCEPT ![dir[n]] = GivenUp(file[dir[n]])]
    BY <1>4 DEF OwnerRemoves
  <2>2. GivenUp(file[dir[n]]).run = file[dir[n]].run /\ GivenUp(file[dir[n]]).mtime = file[dir[n]].mtime
    BY DEF GivenUp
  <2>3. ASSUME NEW i \in DOMAIN file
        PROVE  /\ file'[i].run = file[i].run
               /\ file'[i].mtime \in Nat /\ file[i].mtime <= file'[i].mtime
    <3>1. file'[i] = IF i = dir[n] THEN GivenUp(file[dir[n]]) ELSE file[i]
      BY <2>1
    <3> HIDE DEF GivenUp
    <3> QED
      BY <2>2, <3>1, TimesAreCounts
  <2>4. DOMAIN file' = DOMAIN file /\ \A m \in DOMAIN dir' : m \in DOMAIN dir /\ dir'[m] = dir[m]
    BY <2>1 DEF Without
  <2> QED
    BY <1>1, <2>3, <2>4 DEF DiskSteady
<1>5. CASE OwnerMoves \/ OwnerRestages
  <2>1. dir' = dir /\ file' = file
    BY <1>5 DEF OwnerMoves, OwnerRestages
  <2> QED
    BY <1>1, <2>1, SameDiskIsSteady
<1> QED
  BY <1>2, <1>3, <1>4, <1>5

LEMMA NamesDiffer ==
  ASSUME NEW k
  PROVE  /\ Stage(k) # Active /\ Backup(k) # Active /\ Aside(k) # Active
         /\ Stage(k)[1] = "stage" /\ Backup(k)[1] = "backup" /\ Aside(k)[1] = "aside"
         /\ Active[1] = "active"
BY DEF Stage, Backup, Aside, Active

LEMMA OwnerKeepsUnderWay ==
  ASSUME IInv, JInv, DiskSteady, UNCHANGED <<pc, kind, cmd, mem, journal, held, swap>>
  PROVE  UnderWay'
<1>1. KindSound' /\ MemSound'
  BY DEF JInv, UnderWay, KindSound, MemSound, Confirmed, NoneApplied
<1>2. \A n \in DOMAIN dir', i \in DOMAIN file :
        dir'[n] = i => n \in DOMAIN dir /\ dir[n] = i
  BY DEF DiskSteady
<1>3. \A n \in DOMAIN dir' : n # Active => n \in DOMAIN dir /\ dir'[n] = dir[n]
  BY DEF DiskSteady
<1>4. \A new : OwnOp(new) => OwnOp(new)'
  BY DEF OwnOp, DiskSteady
<1>5. CreatePhase'
  <2>1. ASSUME held.inode \in DOMAIN file, OnlyStaged
        PROVE  OnlyStaged'
    BY <1>2, <1>3, <2>1, NamesDiffer DEF OnlyStaged
  <2> QED
    BY <1>4, <2>1 DEF JInv, UnderWay, CreatePhase, OwnOp
<1>6. \A i, m : i \in DOMAIN file /\ m \in Nat /\ m <= file[i].mtime
                 => i \in DOMAIN file' /\ m <= file'[i].mtime
  BY TimesAreCounts DEF DiskSteady
<1>7. NewMade => NewMade'
  BY <1>4 DEF NewMade
<1>8. OldSeen => OldSeen'
  BY <1>6 DEF OldSeen, Sigs
<1>9. ASSUME SwapSeen, NewMade
      PROVE  SwapSeen'
  <2>1. swap.out.mtime <= file'[swap.out.inode].mtime /\ swap.out.inode \in DOMAIN file'
    BY <1>6, <1>9 DEF SwapSeen, Sigs
  <2>2. swap.in.mtime <= file'[held.new.inode].mtime
    BY <1>6, <1>9 DEF SwapSeen, Sigs, NewMade, OwnOp
  <2>3. Backup(cmd) \in DOMAIN dir' => dir'[Backup(cmd)] = swap.out.inode
    BY <1>3, <1>9, NamesDiffer DEF SwapSeen
  <2> QED
    BY <1>9, <2>1, <2>2, <2>3 DEF SwapSeen
<1>10. ASSUME OldIsTarget, OldSeen
       PROVE  OldIsTarget'
  BY <1>2, <1>10 DEF OldIsTarget, OldSeen
<1>11. ASSUME Backup(cmd) \in DOMAIN dir => dir[Backup(cmd)] = held.new.inode
       PROVE  Backup(cmd) \in DOMAIN dir' => dir'[Backup(cmd)] = held.new.inode
  BY <1>3, <1>11, NamesDiffer
<1>12. ExchangePhase'
  <2>1. pc = "swap" \/ pc = "swapped" => pc \in Exchanging /\ kind = "exchange"
    BY DEF JInv, UnderWay, KindSound, Exchanging
  <2> QED
    BY <1>7, <1>8, <1>9, <1>10, <1>11, <2>1 DEF JInv, UnderWay, ExchangePhase
<1> QED
  BY <1>1, <1>5, <1>12 DEF UnderWay

\* A command that ends, whether it failed or not.
LEMMA ReturnKeeps ==
  ASSUME IInv, JInv, Fail \/ Exit("idle"), run' = run, cmd' = cmd, swap' = swap, made' = made,
         journal' = journal, kept \subseteq kept', mem' \in Journals, UpTo(mem', cmd)
  PROVE  JInv'
<1>1. DiskSteady
  BY FailIsSteady, ExitIsSteady
<1>2. pc' \notin Busy
  BY FailIsSteady DEF Exit, Busy, Creation, Exchanging
<1>3. AtRest'
  BY <1>1, RestStays DEF JInv, AtRest, JournalType
<1> QED
  BY <1>2, <1>3, NothingUnderWay DEF JInv

LEMMA FailKeeps ==
  ASSUME IInv, JInv, Fail \/ Exit("idle"), run' = run, cmd' = cmd, swap' = swap, made' = made,
         journal' = journal, kept' = kept, mem' = mem
  PROVE  JInv'
BY ReturnKeeps DEF JInv, AtRest, JournalType

\* A journal that records no less than the one on disk is written, or the command ends.
LEMMA SaveKeeps ==
  ASSUME IInv, JInv, NEW to, Save(mem', to), run' = run, cmd' = cmd, swap' = swap, made' = made,
         mem' \in Journals, UpTo(mem', cmd), journal.made => mem'.made,
         Recorded(journal) \subseteq Recorded(mem'), Confirmed(mem')
  PROVE  \/ JInv'
         \/ AtRest' /\ journal' = mem' /\ pc' = to /\ kept' = kept /\ dir' = dir /\ file' = file
<1>1. CASE journal' = mem' /\ pc' = to /\ UNCHANGED <<kept, dir, file>>
  BY <1>1, RestStays, SameDiskIsSteady DEF JInv
<1>2. CASE journal' = journal /\ Preserve(mem') /\ Fail
  BY <1>2, ReturnKeeps DEF Preserve
<1> QED
  BY <1>1, <1>2 DEF Save

\* A step of a command that only looks at the disk, and goes on or fails.
LEMMA LookKeepsRest ==
  ASSUME IInv, JInv, UNCHANGED <<dir, file, run, cmd, swap, made, kept, mem, journal>>
  PROVE  AtRest'
BY RestStaysSame, SameDiskIsSteady DEF JInv

LEMMA CommandKeeps ==
  ASSUME IInv, JInv, NEW k, Command(k), UNCHANGED <<disk, run, journal, kept>>
  PROVE  AtRest' /\ mem' = journal' /\ NoneApplied(journal)' /\ Confirmed(mem)'
<1>1. cmd' = cmd + 1 /\ mem' = journal /\ cmd \in Nat /\ UpTo(journal, cmd) /\ journal \in Journals
  BY DEF Command, JInv, AtRest, JournalType
<1>2. \A op \in ToSet(journal.ops) : op.cmd \in Nat
  <2>1. journal.ops \in Seq(Ops)
    BY <1>1 DEF Journals
  <2>2. \A op \in ToSet(journal.ops) : op \in Ops
    BY <2>1 DEF ToSet
  <2> QED
    BY <2>2 DEF Ops
<1>3. \A op \in ToSet(journal.ops) : op.cmd <= cmd' /\ op.cmd # cmd'
  BY <1>1, <1>2 DEF UpTo
<1>4. UpTo(journal, cmd')
  BY <1>3 DEF UpTo
<1>5. NoneApplied(journal)' /\ Confirmed(journal)' /\ Confirmed(mem)'
  BY <1>1, <1>3 DEF NoneApplied, Confirmed
<1>6. JournalType'
  BY <1>1, <1>4 DEF JInv, AtRest, JournalType, disk
<1>7. Trail' /\ MadeIsKept'
  BY DEF JInv, AtRest, Trail, MadeIsKept, Evidence, disk
<1> QED
  BY <1>1, <1>5, <1>6, <1>7 DEF AtRest

LEMMA BeginCreateKeeps ==
  ASSUME IInv, JInv, Create
  PROVE  JInv'
<1>1. PICK k \in {"copy", "hook"} : BeginCreate(k)
  BY DEF Create
<1>2. AtRest' /\ mem' = journal' /\ NoneApplied(journal)' /\ Confirmed(mem)'
  BY <1>1, CommandKeeps DEF BeginCreate
<1>3. pc' \in {"mkdir", "look"} /\ kind' \in {"copy", "hook"}
  BY <1>1 DEF BeginCreate, Command
<1>4. UnderWay'
  BY <1>2, <1>3 DEF UnderWay, KindSound, MemSound, CreatePhase, ExchangePhase, NoneApplied,
                    Busy, Creation, Exchanging
<1> QED
  BY <1>2, <1>4 DEF JInv

LEMMA ProposeKeeps ==
  ASSUME IInv, JInv, Propose
  PROVE  JInv'
<1>1. AtRest' /\ mem' = journal' /\ NoneApplied(journal)' /\ Confirmed(mem)'
  BY CommandKeeps DEF Propose
<1>2. CASE pc' = "idle"
  BY <1>1, <1>2, NothingUnderWay DEF JInv, Busy, Creation, Exchanging
<1>3. CASE pc' # "idle"
  <2>1. /\ pc' = "confirm" /\ kind' = "exchange" /\ held'.old = Signature(Active)
        /\ held' = [old |-> held'.old, new |-> held'.new]
        /\ At(Active) # 0 /\ Links(At(Active)) = 1 /\ dir' = dir /\ file' = file
    BY <1>3 DEF Propose, Command, disk
  <2>2. At(Active) \in DOMAIN file
    BY <2>1, Occupied
  <2>3. held'.old \in Sigs /\ held'.old.nlink = 1 /\ held'.old.inode = At(Active)
        /\ held'.old.mtime = file[At(Active)].mtime
    BY <2>1, <2>2, IdentityType DEF Signature, JInv, AtRest, JournalType
  <2>4. OldSeen'
    BY <2>1, <2>2, <2>3, TimesAreCounts DEF OldSeen
  <2> QED
    BY <1>1, <2>1, <2>4 DEF JInv, UnderWay, KindSound, MemSound, CreatePhase, ExchangePhase,
                            NoneApplied, Busy, Creation, Exchanging
<1> QED
  BY <1>2, <1>3

LEMMA MakeParentKeeps ==
  ASSUME IInv, JInv, MakeParent
  PROVE  JInv'
<1>1. /\ pc = "mkdir" /\ mem = journal /\ NoneApplied(journal) /\ Confirmed(mem)
      /\ kind \in {"copy", "hook"}
  BY DEF MakeParent, JInv, UnderWay, MemSound, KindSound, Busy, Creation, Exchanging
<1>2. /\ mem' \in Journals /\ mem'.ops = mem.ops /\ mem'.made
      /\ UNCHANGED <<run, cmd, swap, kind, held>>
  BY DEF MakeParent, JInv, AtRest, JournalType, Journals
<1>3. Save(mem', "look")
  BY DEF MakeParent
<1>4. UpTo(mem', cmd) /\ Confirmed(mem') /\ Recorded(mem') = Recorded(journal) /\ UpTo(journal, cmd)
  BY <1>1, <1>2 DEF JInv, AtRest, JournalType, UpTo, Confirmed, Recorded
<1>5. DiskSteady /\ (journal' = mem' \/ journal' = journal)
      /\ (pc' \notin Busy \/ journal' = mem')
  BY <1>3, SameDiskIsSteady, FailIsSteady DEF Save
<1>6. journal' \in Journals /\ UpTo(journal', cmd) /\ Confirmed(journal')
      /\ Recorded(journal') = Recorded(journal) /\ (journal.made => journal'.made)
  BY <1>2, <1>4, <1>5 DEF JInv, AtRest, JournalType
<1>7. AtRest'
  <2>1. MadeIsKept'
    <3>1. CASE journal' = mem'
      BY <1>2, <3>1 DEF MadeIsKept, Evidence
    <3>2. CASE Preserve(mem')
      <4>1. PICK left \in {[by |-> "copy", of |-> mem'], [by |-> "message", of |-> Told]} :
                 kept' = kept \cup {left}
        BY <3>2 DEF Preserve
      <4>2. left.of.made
        <5>1. Told.made
          BY <1>1 DEF Told
        <5>2. left.of = mem' \/ left.of = Told
          BY <4>1
        <5> QED
          BY <1>2, <5>1, <5>2
      <4>3. left.of \in Evidence'
        BY <4>1 DEF Evidence
      <4> QED
        BY <4>2, <4>3 DEF MadeIsKept
    <3> QED
      BY <1>3, <3>1, <3>2 DEF Save
  <2>2. kept \subseteq kept'
    BY <1>3 DEF Save, Preserve
  <2> QED
    BY <1>2, <1>4, <1>5, <1>6, <2>1, <2>2, RestStays DEF JInv
<1>8. CASE pc' \notin Busy
  BY <1>7, <1>8, NothingUnderWay DEF JInv
<1>9. CASE pc' \in Busy
  <2>1. pc' = "look" /\ journal' = mem'
    BY <1>3, <1>5, <1>9, FailIsSteady DEF Save
  <2>2. NoneApplied(mem)'
    BY <1>1, <1>2 DEF NoneApplied
  <2>3. MemSound'
    BY <1>7, <2>1, <2>2 DEF AtRest, MemSound, NoneApplied
  <2>4. KindSound' /\ CreatePhase' /\ ExchangePhase'
    BY <1>1, <1>2, <2>1 DEF KindSound, CreatePhase, ExchangePhase, Creation, Exchanging
  <2> QED
    BY <1>7, <2>3, <2>4 DEF JInv, UnderWay
<1> QED
  BY <1>8, <1>9

LEMMA LookKeeps ==
  ASSUME IInv, JInv, Look
  PROVE  JInv'
<1>1. CASE Fail \/ Exit("idle")
  BY <1>1, FailKeeps DEF Look
<1>2. CASE ~(Fail \/ Exit("idle"))
  <2>1. pc = "look" /\ pc' = "stage" /\ UNCHANGED <<dir, file>>
    BY <1>2 DEF Look
  <2>2. AtRest'
    BY <2>1, LookKeepsRest DEF Look
  <2>3. UnderWay'
    BY <2>1 DEF Look, JInv, UnderWay, KindSound, MemSound, CreatePhase, ExchangePhase, Confirmed,
                NoneApplied, Busy, Creation, Exchanging
  <2> QED
    BY <2>2, <2>3 DEF JInv
<1> QED
  BY <1>1, <1>2

\* A new inode of this run, under a staging or recovery name.
LEMMA NewInodeTraced ==
  ASSUME IInv, AtRest, NEW new \in Inodes, new.run = run, NEW name, name[1] \in {"stage", "backup"},
         file' = Append(file, new), dir' = With(name, Len(file'))
  PROVE  /\ DiskTraced
         /\ Len(file') \in Nat /\ Len(file') \in DOMAIN file' /\ Len(file') \notin DOMAIN file
         /\ \A i \in DOMAIN file : i \in DOMAIN file' /\ file'[i] = file[i]
         /\ \A n \in DOMAIN dir' : IF n = name THEN dir'[n] = Len(file')
                                   ELSE n \in DOMAIN dir /\ dir'[n] = dir[n] /\ dir'[n] \in DOMAIN file
<1>1. file \in Seq(Inodes) /\ run \in Nat
  BY DEF IInv, TypeOK
<1>2. /\ Len(file) \in Nat /\ Len(file') = Len(file) + 1 /\ file'[Len(file) + 1] = new
      /\ DOMAIN file = 1..Len(file) /\ DOMAIN file' = 1..(Len(file) + 1)
      /\ \A i \in DOMAIN file : file'[i] = file[i]
  BY <1>1
<1>3. /\ DOMAIN dir' = DOMAIN dir \cup {name} /\ dir'[name] = Len(file')
      /\ \A n \in DOMAIN dir : n # name => dir'[n] = dir[n]
  BY DEF With
<1>4. \A n \in DOMAIN dir : dir[n] \in DOMAIN file
  BY DEF IInv, TypeOK
<1>5. IsFiniteSet(DOMAIN dir')
  BY <1>3, FS_AddElement DEF AtRest, JournalType
<1>6. /\ Len(file') \in Nat /\ Len(file') \in DOMAIN file' /\ Len(file') \notin DOMAIN file
      /\ \A i \in DOMAIN file : i \in DOMAIN file'
      /\ \A i \in DOMAIN file' \ DOMAIN file : i = Len(file')
  BY <1>2
<1>7. DiskTraced
  <2>1. \A i \in DOMAIN file' \ DOMAIN file : file'[i].run <= run
    BY <1>1, <1>2, <1>6
  <2>2. \A n \in DOMAIN dir' : n[1] \in {"active", "aside"} => n # name
    OBVIOUS
  <2> QED
    BY <1>2, <1>3, <1>5, <1>6, <2>1, <2>2 DEF DiskTraced
<1> QED
  BY <1>2, <1>3, <1>4, <1>6, <1>7

\* The own operation is added to the journal in memory.
LEMMA OperationAdded ==
  ASSUME IInv, JInv, pc \in {"stage", "confirm"}, NEW op \in Ops, op.cmd = cmd, op.status = "pending",
         mem' = [mem EXCEPT !.ops = Append(mem.ops, op)]
  PROVE  /\ mem = journal /\ mem' \in Journals /\ UpTo(mem', cmd) /\ mem'.made = mem.made
         /\ mem'.ops # <<>> /\ Last(mem'.ops) = op
         /\ Recorded(journal) \subseteq Recorded(mem') /\ Confirmed(mem') /\ NoneApplied(mem')
<1>1. mem = journal /\ NoneApplied(mem) /\ Confirmed(mem)
  BY DEF JInv, UnderWay, MemSound, Busy, Creation, Exchanging
<1>2. mem \in Journals /\ UpTo(mem, cmd) /\ cmd \in Nat /\ mem.ops \in Seq(Ops)
  BY DEF JInv, AtRest, JournalType, Journals
<1>3. mem'.ops = Append(mem.ops, op) /\ mem'.made = mem.made /\ mem' = [ops |-> mem'.ops, made |-> mem'.made]
  BY <1>2 DEF Journals
<1>4. /\ mem'.ops \in Seq(Ops) /\ mem'.ops # <<>> /\ Last(mem'.ops) = op
      /\ ToSet(mem'.ops) = ToSet(mem.ops) \cup {op}
  BY <1>2, <1>3, Appended
<1>5. mem' \in Journals
  BY <1>2, <1>3, <1>4 DEF Journals
<1> QED
  BY <1>1, <1>2, <1>3, <1>4, <1>5 DEF UpTo, Recorded, Confirmed, NoneApplied

LEMMA StageFileKeeps ==
  ASSUME IInv, JInv, StageFile
  PROVE  JInv'
<1>1. CASE Fail
  <2>1. mem' = mem
    BY <1>1, FailIsSteady DEF StageFile, Busy
  <2> QED
    BY <1>1, <2>1, FailKeeps DEF StageFile
<1>2. CASE ~Fail
  <2> DEFINE op == [kind |-> kind, cmd |-> cmd, status |-> "pending", old |-> Nothing, new |-> held']
  <2>1. /\ pc = "stage" /\ pc' = "journal" /\ UNCHANGED <<made, kind, cmd, run, journal, kept, swap>>
        /\ file' = Append(file, New("payload", run)) /\ dir' = With(Stage(cmd), Len(file'))
        /\ held' = [inode |-> Len(file'), mtime |-> 0, ctime |-> 0, nlink |-> 1]
        /\ mem' = [mem EXCEPT !.ops = Append(mem.ops, op)]
    BY <1>2 DEF StageFile
  <2>2. kind \in {"copy", "hook"} /\ cmd \in Nat
    BY <2>1 DEF JInv, UnderWay, KindSound, AtRest, JournalType, Creation
  <2>3. New("payload", run) \in Inodes /\ New("payload", run).run = run
    BY DEF New, Inodes, IInv, TypeOK
  <2>4. Stage(cmd)[1] = "stage"
    BY NamesDiffer
  <2>5. /\ DiskTraced
        /\ Len(file') \in Nat /\ Len(file') \in DOMAIN file' /\ Len(file') \notin DOMAIN file
        /\ \A n \in DOMAIN dir' : IF n = Stage(cmd) THEN dir'[n] = Len(file')
                                  ELSE n \in DOMAIN dir /\ dir'[n] = dir[n] /\ dir'[n] \in DOMAIN file
    BY <2>1, <2>3, <2>4, NewInodeTraced DEF JInv
  <2>6. held' \in Sigs /\ held'.inode = Len(file')
    BY <2>1, <2>5 DEF Sigs
  <2>7. op \in Ops /\ op.cmd = cmd /\ op.status = "pending" /\ op.new = held'
    BY <2>2, <2>6 DEF Ops, Kinds
  <2> HIDE DEF op
  <2>8. /\ mem' \in Journals /\ UpTo(mem', cmd) /\ mem'.made = mem.made /\ mem = journal
        /\ mem'.ops # <<>> /\ Last(mem'.ops) = op
        /\ Recorded(journal) \subseteq Recorded(mem') /\ Confirmed(mem') /\ NoneApplied(mem')
    BY <2>1, <2>7, OperationAdded
  <2>9. AtRest'
    BY <2>1, <2>5, <2>8, RestStays DEF JInv, AtRest, JournalType
  <2>10. OwnOp(held)' /\ OnlyStaged'
    BY <2>1, <2>5, <2>6, <2>7, <2>8 DEF OwnOp, OnlyStaged
  <2>11. MemSound'
    BY <2>1, <2>8 DEF JInv, UnderWay, MemSound, Recorded, Confirmed, NoneApplied, Busy, Creation, Exchanging
  <2>12. KindSound' /\ CreatePhase' /\ ExchangePhase'
    BY <2>1, <2>2, <2>6, <2>10 DEF KindSound, CreatePhase, ExchangePhase, Kinds, Creation, Exchanging
  <2> QED
    BY <2>9, <2>11, <2>12 DEF JInv, UnderWay
<1> QED
  BY <1>1, <1>2

LEMMA JournalIntentKeeps ==
  ASSUME IInv, JInv, JournalIntent
  PROVE  JInv'
<1> DEFINE to == IF Creating THEN "check" ELSE "recheck"
<1>1. /\ pc = "journal" /\ Save(mem, to) /\ UNCHANGED <<made, kind, cmd, run, mem, held, swap>>
  BY DEF JournalIntent
<1>2. /\ (journal.made => mem.made) /\ Recorded(journal) \subseteq Recorded(mem) /\ Confirmed(mem)
      /\ NoneApplied(mem) /\ mem \in Journals /\ UpTo(mem, cmd) /\ kind \in Kinds
  BY <1>1 DEF JInv, UnderWay, MemSound, KindSound, AtRest, JournalType, Busy
<1>3. \/ JInv'
      \/ AtRest' /\ journal' = mem' /\ pc' = to /\ dir' = dir /\ file' = file
  BY <1>1, <1>2, SaveKeeps
<1>4. CASE AtRest' /\ journal' = mem' /\ pc' = to /\ dir' = dir /\ file' = file
  <2>1. (to = "check" /\ kind \in {"copy", "hook"}) \/ (to = "recheck" /\ kind = "exchange")
    BY <1>2 DEF Creating, Kinds
  <2>2. MemSound'
    BY <1>1, <1>2, <1>4, <2>1 DEF MemSound, Recorded, Confirmed, NoneApplied, Busy, Creation, Exchanging
  <2>3. KindSound'
    BY <1>1, <1>4, <2>1 DEF KindSound, Creation, Exchanging
  <2>4. CreatePhase'
    BY <1>1, <1>4, <2>1 DEF JInv, UnderWay, CreatePhase, OwnOp, OnlyStaged
  <2>5. ExchangePhase'
    BY <1>1, <1>4, <2>1 DEF JInv, UnderWay, ExchangePhase, NewMade, OldSeen, OwnOp, Exchanging
  <2> QED
    BY <1>4, <2>2, <2>3, <2>4, <2>5 DEF JInv, UnderWay
<1> QED
  BY <1>3, <1>4

LEMMA CheckStagedKeeps ==
  ASSUME IInv, JInv, CheckStaged
  PROVE  JInv'
<1>1. CASE Fail
  BY <1>1, FailKeeps DEF CheckStaged
<1>2. CASE ~Fail
  <2>1. pc = "check" /\ pc' = "link"
        /\ UNCHANGED <<dir, file, made, kind, cmd, run, mem, journal, kept, held, swap>>
    BY <1>2 DEF CheckStaged
  <2>2. AtRest'
    BY <2>1, LookKeepsRest
  <2>3. UnderWay'
    BY <2>1 DEF JInv, UnderWay, KindSound, MemSound, CreatePhase, ExchangePhase, Confirmed,
                NoneApplied, OwnOp, OnlyStaged, Busy, Creation, Exchanging
  <2> QED
    BY <2>2, <2>3 DEF JInv
<1> QED
  BY <1>1, <1>2

\* A file of the own operation is on record while the journals agree.
LEMMA OwnIsRecorded ==
  ASSUME JInv, NEW new, OwnOp(new), mem = journal
  PROVE  new.inode \in Recorded(journal) /\ journal.ops \in Seq(Ops) /\ journal.ops # <<>>
<1>1. mem.ops \in Seq(Ops) /\ mem.ops # <<>>
  BY DEF JInv, AtRest, JournalType, Journals, OwnOp
<1>2. Last(mem.ops) \in ToSet(mem.ops)
  BY <1>1, FrontAndLast
<1> QED
  BY <1>1, <1>2 DEF Recorded, OwnOp

LEMMA LinkKeeps ==
  ASSUME IInv, JInv, Link
  PROVE  JInv'
<1>1. /\ pc = "link" /\ pc' = "linked" /\ dir' = With(Active, At(Stage(cmd)))
      /\ Stage(cmd) \in DOMAIN dir /\ file' = Touched({At(Stage(cmd))})
      /\ UNCHANGED <<made, kind, cmd, run, mem, journal, kept, held, swap>>
  BY DEF Link
<1>2. /\ kind \in {"copy", "hook"} /\ mem = journal /\ held \in Sigs /\ OwnOp(held) /\ OnlyStaged
  BY <1>1 DEF JInv, UnderWay, KindSound, MemSound, CreatePhase, Busy, Creation, Exchanging
<1>3. At(Stage(cmd)) = held.inode /\ held.inode \in Recorded(journal)
  BY <1>1, <1>2, OwnIsRecorded DEF OnlyStaged, At
<1>4. /\ DOMAIN file' = DOMAIN file /\ \A i \in DOMAIN file : file'[i].run = file[i].run
  BY <1>1, TouchedTimes
<1>5. DiskTraced
  <2>1. IsFiniteSet(DOMAIN dir')
    BY <1>1, FS_AddElement DEF With, JInv, AtRest, JournalType
  <2>2. \A n \in DOMAIN dir' : n = Active \/ (n \in DOMAIN dir /\ dir'[n] = dir[n])
    BY <1>1 DEF With
  <2>3. dir'[Active] = held.inode
    BY <1>1, <1>3 DEF With
  <2> QED
    BY <1>3, <1>4, <2>1, <2>2, <2>3 DEF DiskTraced
<1>6. AtRest'
  BY <1>1, <1>5, RestStays DEF JInv, AtRest, JournalType
<1>7. OwnOp(held)'
  BY <1>1, <1>2, <1>4 DEF OwnOp
<1>8. UnderWay'
  BY <1>1, <1>2, <1>7 DEF JInv, UnderWay, KindSound, MemSound, CreatePhase, ExchangePhase,
                          Confirmed, NoneApplied, Busy, Creation, Exchanging
<1> QED
  BY <1>6, <1>8 DEF JInv

LEMMA LinkRefusedKeeps ==
  ASSUME IInv, JInv, LinkRefused
  PROVE  JInv'
<1>1. /\ pc = "link" /\ mem' = [mem EXCEPT !.ops = Front(mem.ops)] /\ (Fail \/ Exit("idle"))
      /\ UNCHANGED <<made, cmd, run, swap>> /\ kept \subseteq kept'
  BY DEF LinkRefused, Preserve
<1>2. /\ kind \in {"copy", "hook"} /\ mem = journal /\ OwnOp(held) /\ OnlyStaged
  BY <1>1 DEF JInv, UnderWay, KindSound, MemSound, CreatePhase, Busy, Creation, Exchanging
<1>3. /\ journal \in Journals /\ UpTo(journal, cmd) /\ journal.ops \in Seq(Ops) /\ journal.ops # <<>>
  BY <1>2, OwnIsRecorded DEF JInv, AtRest, JournalType
<1>4. /\ Front(journal.ops) \in Seq(Ops)
      /\ ToSet(journal.ops) = ToSet(Front(journal.ops)) \cup {Last(journal.ops)}
  BY <1>3, FrontAndLast
<1>5. mem'.ops = Front(journal.ops) /\ mem'.made = journal.made /\ mem' \in Journals
  BY <1>1, <1>2, <1>3, <1>4 DEF Journals
<1>6. UpTo(mem', cmd) /\ Confirmed(mem')
  BY <1>3, <1>4, <1>5 DEF UpTo, Confirmed, JInv, AtRest
<1>7. CASE journal' = journal
  BY <1>1, <1>5, <1>6, <1>7, ReturnKeeps
<1>8. CASE journal' = mem' /\ kept' = kept
  <2>1. DiskSteady /\ pc' \notin Busy /\ \A n \in DOMAIN dir' : n \in DOMAIN dir /\ dir'[n] = dir[n]
    <3>1. DiskSteady /\ \A n \in DOMAIN dir' : n \in DOMAIN dir /\ dir'[n] = dir[n]
      BY <1>1, ExitIsSteady, FailIsSteady DEF Fail, Exit, Cleaned, Without
    <3>2. pc' \notin Busy
      BY <1>1, FailIsSteady DEF Exit, Busy, Creation, Exchanging
    <3> QED
      BY <3>1, <3>2
  <2>2. DiskTraced
    BY <2>1, SteadyIsTraced DEF JInv
  <2>3. JournalType'
    <3>1. \A i \in DOMAIN file' : file'[i].run <= run
      BY <2>2 DEF JInv, AtRest, JournalType, DiskTraced
    <3> QED
      BY <1>1, <1>5, <1>6, <1>8, <2>2, <3>1 DEF JInv, AtRest, JournalType, DiskTraced, UpTo
  <2>4. Trail'
    <3> SUFFICES ASSUME NEW n \in DOMAIN dir', n[1] \in {"active", "aside"},
                        file'[dir'[n]].run = run
                 PROVE  dir'[n] \in Recorded(journal')
      BY <1>1 DEF Trail, Recorded
    <3>1. n \in DOMAIN dir /\ dir'[n] = dir[n] /\ dir[n] \in DOMAIN file
      BY <2>1 DEF IInv, TypeOK
    <3>2. dir[n] \in Recorded(journal)
      BY <2>1, <3>1 DEF JInv, AtRest, Trail, DiskSteady
    <3>3. n # Stage(cmd)
      BY NamesDiffer
    <3>4. dir[n] # held.inode
      BY <1>2, <3>1, <3>3 DEF OnlyStaged
    <3>5. Last(journal.ops).new = held
      BY <1>2 DEF OwnOp
    <3>6. \E op \in ToSet(Front(journal.ops)) : op.new.inode = dir[n]
      BY <1>4, <3>2, <3>4, <3>5 DEF Recorded
    <3> QED
      BY <1>5, <1>8, <3>1, <3>6 DEF Recorded
  <2>5. MadeIsKept'
    BY <1>1, <1>5, <1>8 DEF JInv, AtRest, MadeIsKept, Evidence
  <2>6. Confirmed(journal)'
    BY <1>1, <1>6, <1>8 DEF Confirmed
  <2> QED
    BY <2>1, <2>3, <2>4, <2>5, <2>6, NothingUnderWay DEF JInv, AtRest
<1> QED
  BY <1>7, <1>8 DEF LinkRefused

LEMMA CheckLinkedKeeps ==
  ASSUME IInv, JInv, CheckLinked
  PROVE  JInv'
<1>1. CASE Fail
  BY <1>1, FailKeeps DEF CheckLinked
<1>2. CASE ~Fail
  <2>1. pc = "linked" /\ pc' = "unlink"
        /\ UNCHANGED <<dir, file, made, kind, cmd, run, mem, journal, kept, held, swap>>
    BY <1>2 DEF CheckLinked
  <2>2. AtRest'
    BY <2>1, LookKeepsRest
  <2>3. UnderWay'
    BY <2>1 DEF JInv, UnderWay, KindSound, MemSound, CreatePhase, ExchangePhase, Confirmed,
                NoneApplied, OwnOp, Busy, Creation, Exchanging
  <2> QED
    BY <2>2, <2>3 DEF JInv
<1> QED
  BY <1>1, <1>2

LEMMA UnlinkKeeps ==
  ASSUME IInv, JInv, Unlink
  PROVE  JInv'
<1>1. /\ pc = "unlink" /\ pc' = "observe" /\ Exit("observe")
      /\ UNCHANGED <<made, kind, cmd, run, mem, journal, kept, held, swap>>
  BY DEF Unlink, Exit
<1>2. DiskSteady
  BY <1>1, ExitIsSteady
<1>3. AtRest'
  BY <1>1, <1>2, RestStaysSame DEF JInv
<1>4. OwnOp(held) => OwnOp(held)'
  BY <1>1, <1>2 DEF OwnOp, DiskSteady
<1>5. UnderWay'
  BY <1>1, <1>4 DEF JInv, UnderWay, KindSound, MemSound, CreatePhase, ExchangePhase, Confirmed,
                    NoneApplied, Busy, Creation, Exchanging
<1> QED
  BY <1>3, <1>5 DEF JInv

\* The last operation of the journal is replaced by one of the same file.
LEMMA OperationReplaced ==
  ASSUME JInv, NEW old, OwnOp(old), mem = journal, NEW op \in Ops, op.new.inode = old.inode, op.cmd = cmd,
         mem' = [ops |-> [journal.ops EXCEPT ![Len(journal.ops)] = op], made |-> journal.made]
  PROVE  /\ mem' \in Journals /\ UpTo(mem', cmd) /\ mem'.made = journal.made
         /\ Recorded(mem') = Recorded(journal)
         /\ ToSet(mem'.ops) = ToSet(Front(journal.ops)) \cup {op}
         /\ ToSet(Front(journal.ops)) \subseteq ToSet(journal.ops)
<1>1. journal \in Journals /\ UpTo(journal, cmd) /\ cmd \in Nat
  BY DEF JInv, AtRest, JournalType
<1>2. journal.ops \in Seq(Ops) /\ journal.ops # <<>> /\ Last(journal.ops).new = old
  BY OwnIsRecorded DEF OwnOp
<1>3. mem'.ops = [journal.ops EXCEPT ![Len(journal.ops)] = op] /\ mem'.made = journal.made
  OBVIOUS
<1>4. mem'.ops \in Seq(Ops) /\ ToSet(mem'.ops) = ToSet(Front(journal.ops)) \cup {op}
  BY <1>2, <1>3, LastReplaced
<1>5. ToSet(journal.ops) = ToSet(Front(journal.ops)) \cup {Last(journal.ops)}
  BY <1>2, FrontAndLast
<1>6. mem' \in Journals
  BY <1>1, <1>4 DEF Journals
<1>7. UpTo(mem', cmd)
  <2>1. \A x \in ToSet(mem'.ops) : x \in ToSet(journal.ops) \/ x = op
    BY <1>4, <1>5
  <2> QED
    BY <1>1, <2>1 DEF UpTo
<1>8. Recorded(mem') = Recorded(journal)
  <2>1. Last(journal.ops).new.inode = op.new.inode
    BY <1>2
  <2> QED
    BY <1>4, <1>5, <2>1 DEF Recorded
<1> QED
  BY <1>3, <1>4, <1>5, <1>6, <1>7, <1>8

LEMMA ObserveKeeps ==
  ASSUME IInv, JInv, Observe
  PROVE  JInv'
<1>1. CASE Fail
  <2>1. mem' = mem
    BY <1>1, FailIsSteady DEF Observe, Busy
  <2> QED
    BY <1>1, <2>1, FailKeeps DEF Observe
<1>2. CASE ~Fail
  <2> DEFINE seen == Identity(held.inode)
             last == Last(mem.ops)
             op == [last EXCEPT !.new = seen, !.status = "published"]
  <2>1. /\ pc = "observe" /\ pc' = "record" /\ UNCHANGED <<dir, file>>
        /\ mem' = [mem EXCEPT !.ops[Len(mem.ops)].new = seen,
                              !.ops[Len(mem.ops)].status = "published"]
        /\ UNCHANGED <<made, kind, cmd, run, journal, kept, held, swap>>
    BY <1>2 DEF Observe
  <2>2. /\ kind \in {"copy", "hook"} /\ mem = journal /\ OwnOp(held) /\ NoneApplied(journal)
    BY <2>1 DEF JInv, UnderWay, KindSound, MemSound, CreatePhase, Busy, Creation, Exchanging
  <2>3. mem.ops \in Seq(Ops) /\ mem.ops # <<>> /\ mem \in Journals
    BY <2>2, OwnIsRecorded DEF JInv, AtRest, JournalType
  <2>4. last \in Ops /\ last = mem.ops[Len(mem.ops)] /\ Len(mem.ops) \in DOMAIN mem.ops
    BY <2>3, FrontAndLast
  <2>5. seen \in Sigs /\ seen.inode = held.inode
    BY <2>2, IdentityType DEF OwnOp, JInv, AtRest, JournalType
  <2>6. op \in Ops /\ op.new.inode = held.inode /\ op.cmd = cmd /\ op.status = "published"
    BY <2>2, <2>4, <2>5 DEF Ops, OwnOp
  <2>7. mem' = [ops |-> [journal.ops EXCEPT ![Len(journal.ops)] = op], made |-> journal.made]
    <3>1. mem' = [ops |-> [mem.ops EXCEPT ![Len(mem.ops)] = op], made |-> mem.made]
      BY <2>1, <2>3, <2>4 DEF Journals, Ops
    <3> HIDE DEF op
    <3> QED
      BY <2>2, <3>1
  <2> HIDE DEF op
  <2>8. /\ mem' \in Journals /\ UpTo(mem', cmd) /\ mem'.made = journal.made
        /\ Recorded(mem') = Recorded(journal)
        /\ ToSet(mem'.ops) = ToSet(Front(journal.ops)) \cup {op}
        /\ ToSet(Front(journal.ops)) \subseteq ToSet(journal.ops)
    BY <2>2, <2>6, <2>7, OperationReplaced
  <2>9. Confirmed(mem')
    BY <2>2, <2>6, <2>8 DEF Confirmed, NoneApplied
  <2>10. AtRest'
    BY <2>1, <2>8, RestStays, SameDiskIsSteady DEF JInv, AtRest, JournalType
  <2>11. UnderWay'
    BY <2>1, <2>2, <2>8, <2>9 DEF UnderWay, KindSound, MemSound, CreatePhase, ExchangePhase,
                               Confirmed, Recorded, Kinds, Busy, Creation, Exchanging
  <2> QED
    BY <2>10, <2>11 DEF JInv
<1> QED
  BY <1>1, <1>2

LEMMA RecordKeeps ==
  ASSUME IInv, JInv, Record
  PROVE  JInv'
<1>1. pc = "record" /\ Save(mem, "idle") /\ UNCHANGED <<made, kind, cmd, run, mem, held, swap>>
  BY DEF Record
<1>2. /\ (journal.made => mem.made) /\ Recorded(journal) \subseteq Recorded(mem) /\ Confirmed(mem)
      /\ mem \in Journals /\ UpTo(mem, cmd)
  BY <1>1 DEF JInv, UnderWay, MemSound, AtRest, JournalType, Busy
<1>3. JInv' \/ (AtRest' /\ pc' = "idle")
  BY <1>1, <1>2, SaveKeeps
<1> QED
  BY <1>3, NothingUnderWay DEF JInv, Busy, Creation, Exchanging

LEMMA ConfirmKeeps ==
  ASSUME IInv, JInv, Confirm
  PROVE  JInv'
<1>1. CASE Fail
  <2>1. mem' = mem
    BY <1>1, FailIsSteady DEF Confirm, Busy
  <2> QED
    BY <1>1, <2>1, FailKeeps DEF Confirm
<1>2. CASE ~Fail
  <2> DEFINE op == [kind |-> kind, cmd |-> cmd, status |-> "pending", old |-> held.old, new |-> held'.new]
  <2>1. /\ pc = "confirm" /\ pc' = "journal" /\ UNCHANGED <<made, kind, cmd, run, journal, kept, swap>>
        /\ file' = Append(file, New(staged, run)) /\ dir' = With(Backup(cmd), Len(file'))
        /\ held' = [held EXCEPT !.new = [inode |-> Len(file'), mtime |-> 0, ctime |-> 0, nlink |-> 1]]
        /\ mem' = [mem EXCEPT !.ops = Append(mem.ops, op)]
    BY <1>2 DEF Confirm
  <2>2. kind = "exchange" /\ cmd \in Nat /\ OldSeen
    BY <2>1 DEF JInv, UnderWay, KindSound, ExchangePhase, AtRest, JournalType, Exchanging
  <2>3. New(staged, run) \in Inodes /\ New(staged, run).run = run
    BY DEF New, Inodes, IInv, TypeOK
  <2>4. Backup(cmd)[1] = "backup"
    BY NamesDiffer
  <2>5. /\ DiskTraced
        /\ Len(file') \in Nat /\ Len(file') \in DOMAIN file' /\ Len(file') \notin DOMAIN file
        /\ \A i \in DOMAIN file : i \in DOMAIN file' /\ file'[i] = file[i]
        /\ \A n \in DOMAIN dir' : IF n = Backup(cmd) THEN dir'[n] = Len(file')
                                  ELSE n \in DOMAIN dir /\ dir'[n] = dir[n] /\ dir'[n] \in DOMAIN file
    BY <2>1, <2>3, <2>4, NewInodeTraced DEF JInv
  <2>6. held'.old = held.old
    BY <2>1, <2>2 DEF OldSeen
  <2>7. held'.new = [inode |-> Len(file'), mtime |-> 0, ctime |-> 0, nlink |-> 1]
        /\ held' = [old |-> held'.old, new |-> held'.new]
    BY <2>1, <2>2 DEF OldSeen
  <2>8. held'.new \in Sigs /\ held'.new.inode = Len(file') /\ held'.new.mtime = 0
    BY <2>5, <2>7 DEF Sigs
  <2>9. op \in Ops /\ op.cmd = cmd /\ op.status = "pending" /\ op.new = held'.new /\ op.old = held.old
    BY <2>2, <2>8 DEF Ops, Kinds, OldSeen
  <2> HIDE DEF op
  <2>10. /\ mem' \in Journals /\ UpTo(mem', cmd) /\ mem'.made = mem.made /\ mem = journal
         /\ mem'.ops # <<>> /\ Last(mem'.ops) = op
         /\ Recorded(journal) \subseteq Recorded(mem') /\ Confirmed(mem') /\ NoneApplied(mem')
    BY <2>1, <2>9, OperationAdded
  <2>11. AtRest'
    BY <2>1, <2>5, <2>10, RestStays DEF JInv, AtRest, JournalType
  <2>12. NewMade'
    BY <2>1, <2>5, <2>6, <2>8, <2>9, <2>10 DEF OwnOp, NewMade
  <2>13. OldSeen'
    BY <2>2, <2>5, <2>6, <2>7 DEF OldSeen
  <2>14. Backup(cmd)' \in DOMAIN dir' => dir'[Backup(cmd)'] = held'.new.inode
    BY <2>1, <2>5, <2>8 DEF Backup
  <2>15. MemSound'
    BY <2>1, <2>10 DEF JInv, UnderWay, MemSound, Recorded, Confirmed, NoneApplied, Busy, Creation, Exchanging
  <2>16. KindSound' /\ CreatePhase'
    BY <2>1, <2>2 DEF KindSound, CreatePhase, Kinds, Creation, Exchanging
  <2>17. ExchangePhase'
    BY <2>1, <2>12, <2>13, <2>14 DEF ExchangePhase
  <2> QED
    BY <2>11, <2>15, <2>16, <2>17 DEF JInv, UnderWay
<1> QED
  BY <1>1, <1>2

LEMMA RecheckKeeps ==
  ASSUME IInv, JInv, Recheck
  PROVE  JInv'
<1>1. CASE Fail
  BY <1>1, FailKeeps DEF Recheck
<1>2. CASE ~Fail
  <2>1. /\ pc = "recheck" /\ pc' = "swap" /\ Signature(Active) = held.old
        /\ UNCHANGED <<dir, file, made, kind, cmd, run, mem, journal, kept, held, swap>>
    BY <1>2 DEF Recheck
  <2>2. kind = "exchange" /\ OldSeen /\ NewMade
    BY <2>1 DEF JInv, UnderWay, KindSound, ExchangePhase, Exchanging
  <2>3. OldIsTarget
    <3> DEFINE i == At(Active)
               names == {n \in DOMAIN dir : dir[n] = i}
    <3>1. i # 0 /\ Signature(Active) = Identity(i)
      BY <2>1, <2>2 DEF Signature, OldSeen, Sigs, Nothing
    <3>2. Active \in DOMAIN dir /\ dir[Active] = i /\ i \in DOMAIN file
      BY <3>1, Occupied
    <3>3. held.old.inode = i /\ Cardinality(names) = 1
      BY <2>1, <2>2, <3>1, <3>2, IdentityType DEF OldSeen, Links, JInv, AtRest, JournalType
    <3>4. names \in SUBSET DOMAIN dir /\ IsFiniteSet(names)
      BY FS_Subset DEF JInv, AtRest, JournalType
    <3>5. \E x : names = {x}
      BY <3>3, <3>4, FS_Singleton
    <3>6. names = {Active}
      BY <3>2, <3>5
    <3> QED
      BY <3>3, <3>6 DEF OldIsTarget
  <2>4. AtRest'
    BY <2>1, LookKeepsRest
  <2>5. KindSound' /\ MemSound' /\ CreatePhase'
    BY <2>1, <2>2 DEF JInv, UnderWay, KindSound, MemSound, CreatePhase, Confirmed,
                   NoneApplied, Busy, Creation, Exchanging
  <2>6. ExchangePhase'
    BY <2>1, <2>2, <2>3 DEF JInv, UnderWay, ExchangePhase, OldSeen, NewMade, OwnOp, OldIsTarget, Exchanging
  <2> QED
    BY <2>4, <2>5, <2>6 DEF JInv, UnderWay
<1> QED
  BY <1>1, <1>2

LEMMA ExchangeKeeps ==
  ASSUME IInv, JInv, Exchange
  PROVE  JInv'
<1>1. CASE Fail
  <2>1. swap' = swap
    BY <1>1, FailIsSteady DEF Exchange, Busy, Exchanging
  <2> QED
    BY <1>1, <2>1, FailKeeps DEF Exchange
<1>2. CASE ~Fail
  <2> DEFINE a == At(Active)
             b == At(Backup(cmd))
  <2>1. /\ pc = "swap" /\ pc' = "swapped" /\ a # 0 /\ b # 0
        /\ swap' = [out |-> Signature(Active), in |-> Signature(Backup(cmd))]
        /\ dir' = [dir EXCEPT ![Active] = b, ![Backup(cmd)] = a]
        /\ file' = Touched({a, b})
        /\ UNCHANGED <<made, kind, cmd, run, mem, journal, kept, held>>
    BY <1>2 DEF Exchange
  <2>2. /\ Active \in DOMAIN dir /\ dir[Active] = a /\ a \in DOMAIN file
        /\ Backup(cmd) \in DOMAIN dir /\ dir[Backup(cmd)] = b /\ b \in DOMAIN file
    BY <2>1, Occupied
  <2>3. /\ kind = "exchange" /\ OldSeen /\ NewMade /\ OldIsTarget /\ mem = journal
        /\ NoneApplied(mem) /\ b = held.new.inode
    BY <2>1, <2>2 DEF JInv, UnderWay, KindSound, MemSound, ExchangePhase, Busy, Creation, Exchanging
  <2>4. /\ Signature(Active) = Identity(a) /\ Signature(Backup(cmd)) = Identity(b)
        /\ Identity(a) \in Sigs /\ Identity(a).inode = a /\ Identity(a).mtime = file[a].mtime
        /\ Identity(a).nlink = Links(a)
        /\ Identity(b) \in Sigs /\ Identity(b).inode = b /\ Identity(b).mtime = file[b].mtime
    BY <2>1, <2>2, IdentityType DEF Signature, JInv, AtRest, JournalType
  <2>5. /\ DOMAIN file' = DOMAIN file
        /\ \A i \in DOMAIN file : file'[i].run = file[i].run /\ file'[i].mtime = file[i].mtime
    BY <2>1, TouchedTimes
  <2>6. /\ DOMAIN dir' = DOMAIN dir /\ dir'[Active] = b /\ dir'[Backup(cmd)] = a
        /\ \A n \in DOMAIN dir : n # Active /\ n # Backup(cmd) => dir'[n] = dir[n]
    BY <2>1, <2>2, NamesDiffer
  <2>7. DiskTraced
    <3>1. b \in Recorded(journal)
      BY <2>3, OwnIsRecorded DEF NewMade
    <3>2. IsFiniteSet(DOMAIN dir')
      BY <2>6 DEF JInv, AtRest, JournalType
    <3>3. \A n \in DOMAIN dir' : n[1] \in {"active", "aside"} => n # Backup(cmd)
      BY NamesDiffer
    <3> QED
      BY <2>5, <2>6, <3>1, <3>2, <3>3 DEF DiskTraced
  <2>8. NoneApplied(journal) /\ NoneApplied(mem)'
    BY <2>1, <2>3 DEF NoneApplied
  <2>9. Confirmed(mem)' /\ Confirmed(journal)'
    BY <2>1, <2>3, <2>8 DEF Confirmed, NoneApplied
  <2>10. AtRest'
    <3>1. JournalType'
      <4>1. \A i \in DOMAIN file' : file'[i].run <= run
        BY <2>5 DEF JInv, AtRest, JournalType
      <4> QED
        BY <2>1, <2>7, <4>1 DEF JInv, AtRest, JournalType, UpTo, DiskTraced
    <3>2. Trail'
      <4>1. b \in Recorded(journal)
        BY <2>3, OwnIsRecorded DEF NewMade
      <4>2. \A n \in DOMAIN dir : dir[n] \in DOMAIN file
        BY DEF IInv, TypeOK
      <4>3. run' = run /\ journal' = journal
        BY <2>1
      <4> HIDE DEF a, b
      <4> SUFFICES ASSUME NEW n \in DOMAIN dir, n[1] \in {"active", "aside"}, file'[dir'[n]].run = run
                   PROVE  dir'[n] \in Recorded(journal)
        BY <2>6, <4>3 DEF Trail, Recorded
      <4>4. CASE n = Active
        BY <2>6, <4>1, <4>4
      <4>5. CASE n # Active
        <5>1. dir'[n] = dir[n]
          BY <2>6, <4>5, NamesDiffer
        <5>2. file[dir[n]].run = run
          BY <2>5, <4>2, <5>1
        <5> QED
          BY <5>1, <5>2 DEF JInv, AtRest, Trail
      <4> QED
        BY <4>4, <4>5
    <3>3. MadeIsKept'
      BY <2>1 DEF JInv, AtRest, MadeIsKept, Evidence
    <3> QED
      BY <2>9, <3>1, <3>2, <3>3 DEF AtRest
  <2>11. swap'.out = Identity(a) /\ swap'.in = Identity(b)
    BY <2>1, <2>4
  <2>12. a = held.old.inode => Identity(a).nlink = 1 /\ held.old.mtime <= file[a].mtime
    <3> SUFFICES ASSUME a = held.old.inode PROVE Links(a) = 1
      BY <2>3, <2>4 DEF OldSeen
    <3>1. {n \in DOMAIN dir : dir[n] = a} = {Active}
      BY <2>2, <2>3 DEF OldIsTarget
    <3> QED
      BY <3>1, FS_Singleton DEF Links
  <2>13. SwapSeen'
    <3>1. file[a].mtime \in Nat /\ file[b].mtime \in Nat
      BY <2>2, TimesAreCounts
    <3>2. dir'[Backup(cmd)'] = a
      BY <2>1, <2>6 DEF Backup
    <3>3. /\ swap'.out \in Sigs /\ swap'.out.inode = a /\ swap'.out.mtime = file[a].mtime
          /\ swap'.out.nlink = Identity(a).nlink
          /\ swap'.in \in Sigs /\ swap'.in.inode = b /\ swap'.in.mtime = file[b].mtime
      BY <2>4, <2>11
    <3>4. a \in DOMAIN file' /\ file'[a].mtime = file[a].mtime /\ file'[b].mtime = file[b].mtime
      BY <2>2, <2>5
    <3>5. held' = held /\ b = held.new.inode
      BY <2>1, <2>3
    <3> HIDE DEF a, b
    <3>6. (swap.out.mtime <= file[swap.out.inode].mtime)' /\ (swap.in.mtime <= file[held.new.inode].mtime)'
      BY <3>1, <3>3, <3>4, <3>5
    <3>7. (swap.out.inode = held.old.inode => swap.out.nlink = 1 /\ held.old.mtime <= swap.out.mtime)'
      BY <2>12, <3>3, <3>5
    <3> QED
      BY <3>2, <3>3, <3>4, <3>5, <3>6, <3>7 DEF SwapSeen
  <2>14. OldSeen' /\ NewMade'
    BY <2>1, <2>3, <2>5 DEF OldSeen, NewMade, OwnOp
  <2>15. UnderWay'
    BY <2>1, <2>3, <2>8, <2>9, <2>13, <2>14
    DEF JInv, UnderWay, KindSound, MemSound, CreatePhase, ExchangePhase, NoneApplied, Busy, Creation, Exchanging
  <2> QED
    BY <2>10, <2>15 DEF JInv
<1> QED
  BY <1>1, <1>2

\* What is seen under both names after the exchange tells what was exchanged.
LEMMA SeenIsExchanged ==
  ASSUME IInv, JInv, pc = "swapped",
         NamespaceMatches(Signature(Backup(cmd)), held.old),
         NamespaceMatches(Signature(Active), held.new)
  PROVE  /\ NamespaceMatches(swap.out, held.old)
         /\ Signature(Active) \in Sigs /\ Signature(Active).inode = held.new.inode
         /\ swap.in.inode = held.new.inode /\ swap.in.mtime = Signature(Active).mtime
<1>1. OldSeen /\ NewMade /\ SwapSeen
  BY DEF JInv, UnderWay, KindSound, ExchangePhase, Exchanging
<1>2. ASSUME NEW name, NEW sig \in Sigs, NamespaceMatches(Signature(name), sig)
      PROVE  /\ name \in DOMAIN dir /\ dir[name] \in DOMAIN file /\ dir[name] = sig.inode
             /\ Signature(name) \in Sigs /\ Signature(name).inode = sig.inode
             /\ file[dir[name]].mtime = sig.mtime /\ Signature(name).mtime = sig.mtime
  <2>1. At(name) # 0 /\ Signature(name) = Identity(At(name))
    BY <1>2 DEF NamespaceMatches, Signature
  <2>2. name \in DOMAIN dir /\ dir[name] = At(name) /\ At(name) \in DOMAIN file
    BY <2>1, Occupied
  <2>3. /\ Signature(name) \in Sigs /\ Signature(name).inode = At(name)
        /\ Signature(name).mtime = file[At(name)].mtime
    BY <2>1, <2>2, IdentityType DEF JInv, AtRest, JournalType
  <2>4. Signature(name).inode = sig.inode /\ Signature(name).mtime = sig.mtime
    BY <1>2, <2>3 DEF NamespaceMatches, Sigs
  <2> QED
    BY <2>2, <2>3, <2>4
<1>3. /\ Backup(cmd) \in DOMAIN dir /\ dir[Backup(cmd)] = held.old.inode
      /\ file[held.old.inode].mtime = held.old.mtime
  BY <1>1, <1>2 DEF OldSeen
<1>4. /\ Signature(Active) \in Sigs /\ Signature(Active).inode = held.new.inode
      /\ Signature(Active).mtime = 0 /\ file[held.new.inode].mtime = 0
  BY <1>1, <1>2 DEF NewMade
<1>5. swap.out.inode = held.old.inode
  BY <1>1, <1>3 DEF SwapSeen
<1>6. swap.out.nlink = held.old.nlink /\ swap.out.mtime = held.old.mtime
  <2>1. /\ swap.out.nlink = 1 /\ held.old.nlink = 1 /\ swap.out.mtime \in Nat /\ held.old.mtime \in Nat
        /\ held.old.mtime <= swap.out.mtime /\ swap.out.mtime <= held.old.mtime
    BY <1>1, <1>3, <1>5 DEF SwapSeen, OldSeen, Sigs
  <2> QED
    BY <2>1
<1>7. swap.in.inode = held.new.inode /\ swap.in.mtime = 0
  <2>1. swap.in.mtime \in Nat /\ swap.in.mtime <= 0
    BY <1>1, <1>4 DEF SwapSeen, Sigs
  <2> QED
    BY <1>1, <2>1 DEF SwapSeen
<1>8. NamespaceMatches(swap.out, held.old)
  <2>1. swap.out \in Sigs /\ held.old \in Sigs
    BY <1>1 DEF SwapSeen, OldSeen
  <2>2. swap.out = [held.old EXCEPT !.ctime = swap.out.ctime]
    BY <1>5, <1>6, <2>1 DEF Sigs
  <2>3. \A x \in Sigs : x # Nothing
    <3> SUFFICES ASSUME NEW x \in Sigs, x = Nothing PROVE FALSE
      OBVIOUS
    <3>1. DOMAIN x = {"inode", "mtime", "ctime", "nlink"}
      BY DEF Sigs
    <3>2. DOMAIN x = {"inode"}
      BY DEF Nothing
    <3> QED
      BY <3>1, <3>2
  <2> QED
    BY <2>1, <2>2, <2>3 DEF NamespaceMatches
<1> QED
  BY <1>4, <1>7, <1>8

LEMMA CheckSwappedKeeps ==
  ASSUME IInv, JInv, CheckSwapped
  PROVE  JInv'
<1>1. CASE Fail
  <2>1. mem' = mem
    BY <1>1, FailIsSteady DEF CheckSwapped, Busy
  <2> QED
    BY <1>1, <2>1, FailKeeps DEF CheckSwapped
<1>2. CASE ~Fail
  <2> DEFINE last == Last(journal.ops)
             sig == Signature(Active)
             op == [last EXCEPT !.status = "applied", !.new = sig]
  <2>1. /\ pc = "swapped" /\ pc' = "record" /\ UNCHANGED <<dir, file>>
        /\ NamespaceMatches(Signature(Backup(cmd)), held.old)
        /\ NamespaceMatches(sig, held.new)
        /\ mem' = [journal EXCEPT !.ops[Len(journal.ops)].status = "applied",
                                  !.ops[Len(journal.ops)].new = sig]
        /\ UNCHANGED <<made, kind, cmd, run, journal, kept, held, swap>>
    BY <1>2 DEF CheckSwapped
  <2>2. /\ kind = "exchange" /\ mem = journal /\ NewMade /\ NoneApplied(journal)
    BY <2>1 DEF JInv, UnderWay, KindSound, MemSound, ExchangePhase, Busy, Creation, Exchanging
  <2>3. journal.ops \in Seq(Ops) /\ journal.ops # <<>> /\ journal \in Journals
    BY <2>2, OwnIsRecorded DEF NewMade, JInv, AtRest, JournalType
  <2>4. last \in Ops /\ last = journal.ops[Len(journal.ops)] /\ Len(journal.ops) \in DOMAIN journal.ops
    BY <2>3, FrontAndLast
  <2>5. /\ NamespaceMatches(swap.out, held.old) /\ sig \in Sigs /\ sig.inode = held.new.inode
        /\ swap.in.inode = held.new.inode /\ swap.in.mtime = sig.mtime
    BY <2>1, SeenIsExchanged
  <2>6. /\ op \in Ops /\ op.new = sig /\ op.old = held.old /\ op.cmd = cmd /\ op.status = "applied"
    BY <2>2, <2>4, <2>5 DEF Ops, NewMade, OwnOp
  <2>7. mem' = [ops |-> [journal.ops EXCEPT ![Len(journal.ops)] = op], made |-> journal.made]
    <3> HIDE DEF sig
    <3> QED
      BY <2>1, <2>3, <2>4, <2>6 DEF Journals, Ops
  <2> HIDE DEF op, sig
  <2>8. /\ mem' \in Journals /\ UpTo(mem', cmd) /\ mem'.made = journal.made
        /\ Recorded(mem') = Recorded(journal)
        /\ ToSet(mem'.ops) = ToSet(Front(journal.ops)) \cup {op}
        /\ ToSet(Front(journal.ops)) \subseteq ToSet(journal.ops)
    <3>1. OwnOp(held.new) /\ op.new.inode = held.new.inode
      BY <2>2, <2>5, <2>6 DEF NewMade
    <3> QED
      BY <2>2, <2>6, <2>7, <3>1, OperationReplaced
  <2>9. Confirmed(mem')
    <3> SUFFICES ASSUME NEW x \in ToSet(mem'.ops), x.status = "applied", x.cmd = cmd
                 PROVE  /\ NamespaceMatches(swap.out, x.old)
                        /\ swap.in.inode = x.new.inode /\ swap.in.mtime = x.new.mtime
      BY DEF Confirmed
    <3>1. x = op
      BY <2>2, <2>8 DEF NoneApplied
    <3> QED
      BY <2>5, <2>6, <3>1
  <2>10. AtRest'
    BY <2>1, <2>8, RestStays, SameDiskIsSteady DEF JInv, AtRest, JournalType
  <2>11. UnderWay'
    BY <2>1, <2>2, <2>8, <2>9 DEF UnderWay, KindSound, MemSound, CreatePhase, ExchangePhase,
                               Confirmed, Recorded, Kinds, Busy, Creation, Exchanging
  <2> QED
    BY <2>10, <2>11 DEF JInv
<1> QED
  BY <1>1, <1>2

\* A step of the rollback moves the target name to a recovery name, or back.
LEMMA RollbackKeeps ==
  ASSUME IInv, JInv, BeginRollback \/ Precheck \/ Seize \/ CheckSeized \/ EndRollback
  PROVE  JInv'
<1>1. pc' \notin Busy
  BY DEF BeginRollback, Precheck, Seize, CheckSeized, EndRollback, Busy, Creation, Exchanging
<1>2. /\ UNCHANGED <<made, cmd, run, journal, kept, swap>>
      /\ mem' \in Journals /\ UpTo(mem', cmd) /\ journal \in Journals /\ UpTo(journal, cmd)
      /\ Confirmed(journal)
  BY DEF BeginRollback, Precheck, Seize, CheckSeized, EndRollback, disk, JInv, AtRest, JournalType
<1>3. DiskSteady \/ DiskTraced
  <2>1. CASE UNCHANGED <<dir, file>>
    BY <2>1, SameDiskIsSteady
  <2>2. CASE Seize /\ ~UNCHANGED <<dir, file>>
    <3> DEFINE aside == Aside(Last(undo).cmd)
    <3>1. /\ At(Active) # 0 /\ file' = Touched({At(Active)})
          /\ dir' = [n \in (DOMAIN dir \ {Active}) \cup {aside} |->
                       IF n = aside THEN At(Active) ELSE dir[n]]
      BY <2>2 DEF Seize
    <3>2. Active \in DOMAIN dir /\ dir[Active] = At(Active)
      BY <3>1, Occupied
    <3>3. /\ DOMAIN file' = DOMAIN file /\ \A i \in DOMAIN file : file'[i].run = file[i].run
      BY <3>1, TouchedTimes
    <3>4. IsFiniteSet(DOMAIN dir')
      <4>1. DOMAIN dir' \in SUBSET (DOMAIN dir \cup {aside})
        BY <3>1
      <4>2. IsFiniteSet(DOMAIN dir \cup {aside})
        BY FS_AddElement DEF JInv, AtRest, JournalType
      <4> QED
        BY <4>1, <4>2, FS_Subset
    <3>5. \A n \in DOMAIN dir' : \/ n = aside /\ dir'[n] = dir[Active]
                                 \/ n \in DOMAIN dir /\ dir'[n] = dir[n]
      BY <3>1, <3>2
    <3> QED
      BY <3>2, <3>3, <3>4, <3>5, NamesDiffer DEF DiskTraced
  <2>3. CASE CheckSeized /\ ~UNCHANGED <<dir, file>>
    <3> DEFINE aside == Aside(Last(undo).cmd)
    <3>1. /\ At(aside) # 0 /\ file' = Touched({At(aside)}) /\ dir' = With(Active, At(aside))
      BY <2>3 DEF CheckSeized
    <3>2. aside \in DOMAIN dir /\ dir[aside] = At(aside) /\ aside[1] = "aside"
      BY <3>1, Occupied, NamesDiffer
    <3>3. /\ DOMAIN file' = DOMAIN file /\ \A i \in DOMAIN file : file'[i].run = file[i].run
      BY <3>1, TouchedTimes
    <3>4. IsFiniteSet(DOMAIN dir')
      BY <3>1, FS_AddElement DEF With, JInv, AtRest, JournalType
    <3>5. \A n \in DOMAIN dir' : \/ n = Active /\ dir'[n] = dir[aside]
                                 \/ n \in DOMAIN dir /\ dir'[n] = dir[n]
      BY <3>1, <3>2 DEF With
    <3> QED
      BY <3>2, <3>3, <3>4, <3>5 DEF DiskTraced
  <2> QED
    BY <2>1, <2>2, <2>3 DEF BeginRollback, Precheck, EndRollback, disk
<1>4. AtRest'
  BY <1>2, <1>3, RestStays DEF JInv
<1> QED
  BY <1>1, <1>4, NothingUnderWay DEF JInv

\* The helper is killed; and another run begins, with a journal of its own.
LEMMA CrashKeeps ==
  ASSUME IInv, JInv, Crash
  PROVE  JInv'
<1>1. pc' \notin Busy
  BY DEF Crash, Busy, Creation, Exchanging
<1>2. AtRest'
  BY LookKeepsRest DEF Crash, disk
<1> QED
  BY <1>1, <1>2, NothingUnderWay DEF JInv

LEMMA NewRunKeeps ==
  ASSUME IInv, JInv, NewRun
  PROVE  JInv'
<1>1. /\ run' = run + 1 /\ pc' = "idle" /\ mem' = Empty /\ journal' = Empty /\ made' = FALSE
      /\ UNCHANGED <<dir, file, cmd>>
  BY DEF NewRun
<1>2. Empty \in Journals /\ Empty.ops = <<>> /\ ToSet(Empty.ops) = {}
  <2>1. Empty.ops = <<>> /\ Empty.made = FALSE
    BY DEF Empty
  <2>2. <<>> \in Seq(Ops) /\ DOMAIN <<>> = {}
    OBVIOUS
  <2>3. Empty = [ops |-> <<>>, made |-> FALSE]
    BY DEF Empty
  <2> QED
    BY <2>1, <2>2, <2>3 DEF Journals, ToSet
<1>3. \A i \in DOMAIN file : file[i].run <= run' /\ file[i].run # run'
  BY <1>1, TimesAreCounts DEF JInv, AtRest, JournalType, IInv, TypeOK
<1>4. JournalType'
  BY <1>1, <1>2, <1>3 DEF JInv, AtRest, JournalType, UpTo
<1>5. Trail'
  BY <1>1, <1>3 DEF Trail, IInv, TypeOK
<1>6. Confirmed(journal)' /\ MadeIsKept'
  BY <1>1, <1>2 DEF Confirmed, MadeIsKept
<1>7. pc' \notin Busy
  BY <1>1 DEF Busy, Creation, Exchanging
<1> QED
  BY <1>4, <1>5, <1>6, <1>7, NothingUnderWay DEF JInv, AtRest

LEMMA InitJournal ==
  ASSUME Init
  PROVE  JInv
<1>1. /\ mem = Empty /\ journal = Empty /\ made = FALSE /\ pc = "idle" /\ run = 1 /\ cmd = 0
  BY DEF Init
<1>2. Empty \in Journals /\ ToSet(Empty.ops) = {}
  <2>1. Empty = [ops |-> <<>>, made |-> FALSE] /\ Empty.ops = <<>>
    BY DEF Empty
  <2>2. <<>> \in Seq(Ops) /\ DOMAIN <<>> = {}
    OBVIOUS
  <2> QED
    BY <2>1, <2>2 DEF Journals, ToSet
<1>3. IsFiniteSet(DOMAIN dir) /\ \A i \in DOMAIN file : file[i].run = 0
  <2>1. CASE dir = <<>> /\ file = <<>>
    <3>1. DOMAIN dir = {} /\ DOMAIN file = {}
      BY <2>1
    <3> QED
      BY <3>1, FS_EmptySet
  <2>2. CASE dir = [n \in {Active} |-> 1] /\ \E t \in {"plain", "hooked"} : file = <<New(t, 0)>>
    <3>1. DOMAIN dir = {Active}
      BY <2>2
    <3>2. PICK t \in {"plain", "hooked"} : file = <<New(t, 0)>>
      BY <2>2
    <3>3. DOMAIN file = {1} /\ file[1] = New(t, 0) /\ New(t, 0).run = 0
      BY <3>2 DEF New
    <3> QED
      BY <3>1, <3>3, FS_Singleton
  <2> QED
    BY <2>1, <2>2 DEF Init
<1>4. JournalType
  BY <1>1, <1>2, <1>3 DEF JournalType, UpTo
<1>5. Trail
  <2>1. \A n \in DOMAIN dir : dir[n] \in DOMAIN file
    BY DEF Init
  <2> QED
    BY <1>1, <1>3, <2>1 DEF Trail
<1>6. Confirmed(journal) /\ MadeIsKept
  BY <1>1, <1>2 DEF Confirmed, MadeIsKept
<1>7. UnderWay
  BY <1>1 DEF UnderWay, KindSound, MemSound, CreatePhase, ExchangePhase, Busy, Creation, Exchanging
<1> QED
  BY <1>4, <1>5, <1>6, <1>7 DEF JInv, AtRest

LEMMA StutterKeeps ==
  ASSUME IInv, JInv, UNCHANGED vars
  PROVE  JInv'
<1>1. AtRest'
  BY LookKeepsRest DEF vars
<1>2. UnderWay'
  BY OwnerKeepsUnderWay, SameDiskIsSteady DEF vars
<1> QED
  BY <1>1, <1>2 DEF JInv

\* What is on record, and what was confirmed, in every state.
LEMMA JournalInvariance == Spec => []JInv
<1>1. Init => JInv
  BY InitJournal
<1>2. IInv /\ JInv /\ [Next]_vars => JInv'
  <2> SUFFICES ASSUME IInv, JInv, [Next]_vars PROVE JInv'
    OBVIOUS
  <2>1. CASE UNCHANGED vars
    BY <2>1, StutterKeeps
  <2>2. CASE Create \/ MakeParent \/ Look \/ StageFile \/ JournalIntent \/ CheckStaged
    BY <2>2, BeginCreateKeeps, MakeParentKeeps, LookKeeps, StageFileKeeps, JournalIntentKeeps, CheckStagedKeeps
  <2>3. CASE Link \/ LinkRefused \/ CheckLinked \/ Unlink \/ Observe \/ Record
    BY <2>3, LinkKeeps, LinkRefusedKeeps, CheckLinkedKeeps, UnlinkKeeps, ObserveKeeps, RecordKeeps
  <2>4. CASE Propose \/ Confirm \/ Recheck \/ Exchange \/ CheckSwapped
    BY <2>4, ProposeKeeps, ConfirmKeeps, RecheckKeeps, ExchangeKeeps, CheckSwappedKeeps
  <2>5. CASE BeginRollback \/ Precheck \/ Seize \/ CheckSeized \/ EndRollback
    BY <2>5, RollbackKeeps
  <2>6. CASE Crash \/ NewRun
    BY <2>6, CrashKeeps, NewRunKeeps
  <2>7. CASE OwnerEdits \/ OwnerSaves \/ OwnerRemoves \/ OwnerMoves \/ OwnerRestages
    <3>1. DiskSteady /\ UNCHANGED <<made, pc, kind, cmd, run, mem, journal, kept, held, swap>>
      BY <2>7, OwnerIsSteady
    <3>2. AtRest'
      BY <3>1, RestStaysSame DEF JInv
    <3> QED
      BY <3>1, <3>2, OwnerKeepsUnderWay DEF JInv
  <2> QED
    BY <2>1, <2>2, <2>3, <2>4, <2>5, <2>6, <2>7 DEF Next
<1> QED
  BY <1>1, <1>2, Invariance, PTL DEF Spec

\* Whatever this run wrote under the target name is an operation of the journal on
\* disk, and a directory it made is in the journal, in an emergency copy of it or,
\* when the disk refused both, in a message: after any failure, kill or failed save,
\* with the owner acting in between.
THEOREM WritesAreOnRecord == Spec => []EvidenceOfWrites
<1>1. IInv /\ JInv => EvidenceOfWrites
  <2> SUFFICES ASSUME IInv, JInv PROVE EvidenceOfWrites
    OBVIOUS
  <2>1. ASSUME NEW i \in 1..Len(file), file[i].run = run, At(Active) = i
        PROVE  \E op \in ToSet(journal.ops) : op.new.inode = i
    <3>1. At(Active) # 0
      BY <2>1
    <3>2. Active \in DOMAIN dir /\ dir[Active] = i
      BY <2>1, <3>1, Occupied
    <3>3. i \in Recorded(journal)
      BY <2>1, <3>2, NamesDiffer DEF JInv, AtRest, Trail
    <3> QED
      BY <3>3 DEF Recorded
  <2>2. made => \E j \in Evidence : j.made
    BY DEF JInv, AtRest, MadeIsKept
  <2> QED
    BY <2>1, <2>2 DEF EvidenceOfWrites
<1> QED
  BY <1>1, Invariance, JournalInvariance, PTL

\* An update on record as applied took out exactly the confirmed version and put in
\* exactly the staged one, although the exchange itself is unconditional and the
\* owner acts before and after it.
THEOREM AppliedWasConfirmed == Spec => []AppliedIsConfirmed
<1>1. JInv => AppliedIsConfirmed
  BY DEF JInv, AtRest, Confirmed, AppliedIsConfirmed
<1> QED
  BY <1>1, JournalInvariance, PTL
=============================================================================
