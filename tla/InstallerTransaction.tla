------------------------ MODULE InstallerTransaction ------------------------
(***************************************************************************)
(* The file transaction of the framework installer                         *)
(* (.agent-maintenance/installer-transaction.py), followed on one path of  *)
(* the target project: the copy of a new file, the merge of a provider     *)
(* hook, the confirmed exchange of an existing file, the rollback, and the *)
(* journal that ties them together.  The owner of the project edits,       *)
(* replaces and removes files and moves the directory between any two      *)
(* system calls of the installer: nothing makes the owner wait.            *)
(***************************************************************************)
EXTENDS Integers, FiniteSets, Sequences, SequencesExt

CONSTANTS
    MaxCommands,   \* bound: installer commands, over all runs
    MaxRuns,       \* bound: installer runs, each with a new journal
    MaxOwner       \* bound: interventions of the owner

ASSUME BoundsAreCounts ==
    MaxCommands \in Nat \ {0} /\ MaxRuns \in Nat \ {0} /\ MaxOwner \in Nat

VARIABLES
    dir,        \* name -> inode, for the names that exist in the directory
    file,       \* the inodes: what was written to them, and their times
    parent,     \* "missing", "here" or "moved": where the path leads
    staged,     \* is the proposal still the version that was displayed
    xattrs,     \* can the file system report extended attributes
    pc, kind,   \* the step the helper is at, and the command it executes
    cmd, run,   \* commands and runs so far
    mem,        \* the journal in the memory of the helper
    journal,    \* the journal on disk
    kept,       \* what failed saves have left: emergency copies and messages
    held,       \* identities the command compares against
    undo,       \* operations the rollback has still to look at
    swap,       \* what an exchange displaced and what it activated
    made,       \* has this run made the directory
    moves       \* interventions of the owner so far
vars == <<dir, file, parent, staged, xattrs, pc, kind, cmd, run, mem, journal,
          kept, held, undo, swap, made, moves>>
disk == <<dir, file, parent, staged, xattrs, made, moves>>

Active == <<"active", 0>>
Stage(k) == <<"stage", k>>             \* .name.flywheel-pid-random
Backup(k) == <<"backup", k>>           \* .name.confirm-backup-pid-random
Aside(k) == <<"aside", k>>             \* .name.rollback-pid-random
Nothing == [inode |-> 0]
Empty == [ops |-> <<>>, made |-> FALSE]

At(name) == IF name \in DOMAIN dir THEN dir[name] ELSE 0
Links(i) == Cardinality({n \in DOMAIN dir : dir[n] = i})
Without(name) == [n \in DOMAIN dir \ {name} |-> dir[n]]
With(name, i) == [n \in DOMAIN dir \cup {name} |-> IF n = name THEN i ELSE dir[n]]
\* Every change of an inode or of its links moves its ctime.
Written(f, t) == [text |-> t, mtime |-> f.mtime + 1, ctime |-> f.ctime + 1,
                  owner |-> TRUE, run |-> f.run]
GivenUp(f) == [text |-> f.text, mtime |-> f.mtime, ctime |-> f.ctime + 1,
               owner |-> FALSE, run |-> f.run]
Touched(is) == [i \in DOMAIN file |->
    IF i \in is THEN [file[i] EXCEPT !.ctime = @ + 1] ELSE file[i]]
\* owner: holds bytes the owner wrote and has not given up;  run: the run of
\* the installer that made the inode, 0 for the owner's.
New(text, r) == [text |-> text, mtime |-> 0, ctime |-> 0, owner |-> r = 0, run |-> r]

\* What identity() and confirmation_snapshot() read of an inode.
Identity(i) == [inode |-> i, mtime |-> file[i].mtime, ctime |-> file[i].ctime,
                nlink |-> Links(i)]
Signature(name) == IF At(name) = 0 THEN Nothing ELSE Identity(At(name))
SameIdentity(a, b) == xattrs /\ a = b
\* The one comparison that forgives a new ctime: right after an own rename.
NamespaceMatches(a, b) ==
    a # Nothing /\ b # Nothing /\ a = [b EXCEPT !.ctime = a.ctime]
VerifyParent == parent = "here"
Creating == kind \in {"copy", "hook"}
Registered(text) == text \in {"payload", "hooked"}

Init ==
    /\ xattrs \in BOOLEAN /\ staged = "shown"
    /\ \/ parent = "missing" /\ dir = <<>> /\ file = <<>>
       \/ parent = "here" /\ dir = <<>> /\ file = <<>>
       \/ /\ parent = "here" /\ dir = [n \in {Active} |-> 1]
          /\ \E t \in {"plain", "hooked"} : file = <<New(t, 0)>>
    /\ pc = "idle" /\ kind = "none" /\ cmd = 0 /\ run = 1
    /\ mem = Empty /\ journal = Empty /\ kept = {} /\ held = Nothing
    /\ undo = <<>> /\ swap = Nothing /\ made = FALSE /\ moves = 0

-----------------------------------------------------------------------------
\* How a command ends.  A creating command removes its staging name on every
\* way out; the exchange never removes a name.  The shell rolls back when a
\* copy or a hook failed, and goes on after a failed exchange.
Cleaned == IF Creating THEN Without(Stage(cmd)) ELSE dir
Exit(to) ==
    /\ pc' = to /\ dir' = Cleaned
    /\ file' = IF Creating /\ At(Stage(cmd)) # 0
               THEN Touched({At(Stage(cmd))}) ELSE file
Fail == Exit(IF Creating THEN "exiting" ELSE "idle")

\* A disk that refuses the journal may refuse the emergency copy as well: then
\* only messages are left, and the one of open_parent names what it has made.
Told == [ops |-> <<>>, made |-> pc = "mkdir"]
Preserve(new) ==
    \E left \in {[by |-> "copy", of |-> new], [by |-> "message", of |-> Told]} :
        kept' = kept \cup {left}

\* save_state: the journal is replaced, or the error goes on to the command.
\* to is where the command goes on.
Save(new, to) ==
    \/ journal' = new /\ pc' = to /\ UNCHANGED <<kept, dir, file>>
    \/ UNCHANGED journal /\ Preserve(new) /\ Fail

Command(k) ==
    /\ pc = "idle" /\ cmd < MaxCommands /\ parent # "moved"
    /\ cmd' = cmd + 1 /\ kind' = k /\ mem' = journal
    /\ swap' = Nothing

\* open_parent: a missing directory is made and journalled before it is used.
BeginCreate(k) ==
    /\ Command(k) /\ held' = Nothing
    /\ pc' = IF parent = "missing" THEN "mkdir" ELSE "look"
    /\ UNCHANGED <<disk, run, journal, kept, undo>>

MakeParent ==
    /\ pc = "mkdir"
    /\ parent' = "here" /\ made' = TRUE
    /\ mem' = [mem EXCEPT !.made = TRUE]
    /\ Save(mem', "look")
    /\ UNCHANGED <<staged, xattrs, kind, cmd, run, held, undo, swap, moves>>

\* A target that exists ends the command: a copy reports it, a hook that is
\* registered is left alone (a second link must be a staging alias with the
\* bytes of the installer), and a file without the hook is never replaced.
StagingAliases == {k \in 1..MaxCommands : Stage(k) \in DOMAIN dir}
RecoverStaging ==
    /\ Cardinality(StagingAliases) = 1
    /\ \A k \in StagingAliases : At(Stage(k)) = At(Active)
    /\ Links(At(Active)) = 2
    /\ file[At(Active)].text = "payload"
HookPresent ==
    /\ Registered(file[At(Active)].text)
    /\ Links(At(Active)) = 1 \/ RecoverStaging
Look ==
    /\ pc = "look"
    /\ \/ ~VerifyParent /\ Fail
       \/ /\ VerifyParent /\ At(Active) # 0
          /\ \/ kind = "copy" /\ Exit("idle")
             \/ kind = "hook" /\ HookPresent /\ Exit("idle")
             \/ kind = "hook" /\ ~HookPresent /\ Fail
       \/ VerifyParent /\ At(Active) = 0 /\ pc' = "stage" /\ UNCHANGED <<dir, file>>
    /\ UNCHANGED <<parent, staged, xattrs, made, kind, cmd, run, mem, journal, kept,
                   held, undo, swap, moves>>

\* new_temp: a private inode with all its bytes, then its identity.
StageFile ==
    /\ pc = "stage"
    /\ \/ ~VerifyParent /\ Fail /\ UNCHANGED <<mem, held>>
       \/ /\ VerifyParent
          /\ file' = Append(file, New("payload", run))
          /\ dir' = With(Stage(cmd), Len(file'))
          /\ held' = [inode |-> Len(file'), mtime |-> 0, ctime |-> 0, nlink |-> 1]
          /\ mem' = [mem EXCEPT !.ops = Append(@, [kind |-> kind, cmd |-> cmd,
                        status |-> "pending", old |-> Nothing, new |-> held'])]
          /\ pc' = "journal"
    /\ UNCHANGED <<parent, staged, xattrs, made, kind, cmd, run, journal, kept, undo,
                   swap, moves>>

\* Mutant: the journal is only written once the file is in place.
JournalAfterwards ==
    /\ pc = "journal"
    /\ pc' = IF Creating THEN "check" ELSE "recheck"
    /\ UNCHANGED <<disk, kind, cmd, run, mem, journal, kept, held, undo, swap>>
JournalIntent ==
    /\ pc = "journal"
    /\ Save(mem, IF Creating THEN "check" ELSE "recheck")
    /\ UNCHANGED <<parent, staged, xattrs, made, kind, cmd, run, mem, held, undo, swap,
                   moves>>

\* identity() goes through the descriptor of the staged inode.
CheckStaged ==
    /\ pc = "check"
    /\ IF VerifyParent /\ Identity(held.inode) = held
       THEN pc' = "link" /\ UNCHANGED <<dir, file>> ELSE Fail
    /\ UNCHANGED <<parent, staged, xattrs, made, kind, cmd, run, mem, journal, kept,
                   held, undo, swap, moves>>

Link ==
    /\ pc = "link" /\ At(Active) = 0
    /\ Stage(cmd) \in DOMAIN dir
    /\ dir' = With(Active, At(Stage(cmd)))
    /\ file' = Touched({At(Stage(cmd))})
    /\ pc' = "linked"
    /\ UNCHANGED <<parent, staged, xattrs, made, kind, cmd, run, mem, journal, kept,
                   held, undo, swap, moves>>

\* The name appeared first: the intent is taken back.  The copy reports that
\* the target exists, the hook is an error.
LinkRefused ==
    /\ pc = "link" /\ At(Active) # 0
    /\ mem' = [mem EXCEPT !.ops = Front(@)]
    /\ \/ journal' = mem' /\ UNCHANGED kept
          /\ IF kind = "copy" THEN Exit("idle") ELSE Fail
       \/ UNCHANGED journal /\ Preserve(mem') /\ Fail
    /\ UNCHANGED <<parent, staged, xattrs, made, kind, cmd, run, held, undo, swap, moves>>

CheckLinked ==
    /\ pc = "linked"
    /\ IF /\ VerifyParent
          /\ Signature(Active) = Identity(held.inode)
          /\ NamespaceMatches(Signature(Active), [held EXCEPT !.nlink = @ + 1])
       THEN pc' = "unlink" /\ UNCHANGED <<dir, file>> ELSE Fail
    /\ UNCHANGED <<parent, staged, xattrs, made, kind, cmd, run, mem, journal, kept,
                   held, undo, swap, moves>>

Unlink ==
    /\ pc = "unlink" /\ Exit("observe")
    /\ UNCHANGED <<parent, staged, xattrs, made, kind, cmd, run, mem, journal, kept,
                   held, undo, swap, moves>>

\* record_published_identity: the new ctime is observed, the name and the
\* parent are looked at again, and only then is it written to the journal.
Observe ==
    /\ pc = "observe"
    /\ LET seen == Identity(held.inode)
       IN  IF NamespaceMatches(seen, held) /\ Signature(Active) = seen /\ VerifyParent
           THEN /\ mem' = [mem EXCEPT !.ops[Len(mem.ops)].new = seen,
                                      !.ops[Len(mem.ops)].status = "published"]
                /\ pc' = "record" /\ UNCHANGED <<dir, file>>
           ELSE Fail /\ UNCHANGED mem
    /\ UNCHANGED <<parent, staged, xattrs, made, kind, cmd, run, journal, kept, held,
                   undo, swap, moves>>

Record ==
    /\ pc = "record" /\ Save(mem, "idle")
    /\ UNCHANGED <<parent, staged, xattrs, made, kind, cmd, run, mem, held, undo, swap,
                   moves>>

-----------------------------------------------------------------------------
\* proposal and seal-display: the existing file is read and its identity kept
\* for the confirmation; the proposed version is sealed as it was displayed.
Propose ==
    /\ Command("exchange")
    /\ IF parent = "here" /\ At(Active) # 0 /\ Links(At(Active)) = 1 /\ staged = "shown"
       THEN held' = [old |-> Signature(Active), new |-> Nothing] /\ pc' = "confirm"
       ELSE held' = Nothing /\ pc' = "idle"
    /\ UNCHANGED <<disk, run, journal, kept, undo>>

\* apply-proposal: the target is the confirmed one, the staged file is the
\* displayed one; its bytes go to a new inode under the recovery name.
Confirm ==
    /\ pc = "confirm"
    /\ IF /\ staged = "shown" /\ xattrs /\ VerifyParent
          /\ Signature(Active) = held.old /\ Backup(cmd) \notin DOMAIN dir
       THEN /\ file' = Append(file, New(staged, run))
            /\ dir' = With(Backup(cmd), Len(file'))
            /\ held' = [held EXCEPT !.new = [inode |-> Len(file'), mtime |-> 0,
                                             ctime |-> 0, nlink |-> 1]]
            /\ mem' = [mem EXCEPT !.ops = Append(@, [kind |-> kind, cmd |-> cmd,
                          status |-> "pending", old |-> held.old, new |-> held'.new])]
            /\ pc' = "journal"
       ELSE Fail /\ UNCHANGED <<mem, held>>
    /\ UNCHANGED <<parent, staged, xattrs, made, kind, cmd, run, journal, kept,
                   undo, swap, moves>>

\* Both names are looked at again after the journal was written.
Recheck ==
    /\ pc = "recheck"
    /\ IF /\ Signature(Active) = held.old /\ Signature(Backup(cmd)) = held.new
          /\ VerifyParent
       THEN pc' = "swap" /\ UNCHANGED <<dir, file>> ELSE Fail
    /\ UNCHANGED <<parent, staged, xattrs, made, kind, cmd, run, mem, journal,
                   kept, held, undo, swap, moves>>

\* rename_exchange is not conditional: it swaps whatever the names are now.
Exchange ==
    /\ pc = "swap"
    /\ IF At(Active) # 0 /\ At(Backup(cmd)) # 0
       THEN /\ swap' = [out |-> Signature(Active), in |-> Signature(Backup(cmd))]
            /\ dir' = [dir EXCEPT ![Active] = At(Backup(cmd)), ![Backup(cmd)] = At(Active)]
            /\ file' = Touched({At(Active), At(Backup(cmd))})
            /\ pc' = "swapped"
       ELSE Fail /\ UNCHANGED swap
    /\ UNCHANGED <<parent, staged, xattrs, made, kind, cmd, run, mem, journal,
                   kept, held, undo, moves>>

\* Mutant: only the new file is looked at after the exchange.
CheckActivated ==
    /\ pc = "swapped"
    /\ IF NamespaceMatches(Signature(Active), held.new) /\ VerifyParent
       THEN /\ mem' = [journal EXCEPT !.ops[Len(journal.ops)].status = "applied",
                                      !.ops[Len(journal.ops)].new = Signature(Active)]
            /\ pc' = "record" /\ UNCHANGED <<dir, file>>
       ELSE Fail /\ UNCHANGED mem
    /\ UNCHANGED <<parent, staged, xattrs, made, kind, cmd, run, journal, kept,
                   held, undo, swap, moves>>
CheckSwapped ==
    /\ pc = "swapped"
    /\ IF /\ NamespaceMatches(Signature(Backup(cmd)), held.old)
          /\ NamespaceMatches(Signature(Active), held.new)
          /\ VerifyParent
       THEN /\ mem' = [journal EXCEPT !.ops[Len(journal.ops)].status = "applied",
                                      !.ops[Len(journal.ops)].new = Signature(Active)]
            /\ pc' = "record" /\ UNCHANGED <<dir, file>>
       ELSE Fail /\ UNCHANGED mem
    /\ UNCHANGED <<parent, staged, xattrs, made, kind, cmd, run, journal, kept,
                   held, undo, swap, moves>>

-----------------------------------------------------------------------------
\* rollback: a new process reads the journal on disk and goes backwards.
BeginRollback ==
    /\ pc \in {"idle", "exiting", "crashed"} /\ cmd > 0
    /\ pc' = "undo" /\ kind' = "rollback" /\ mem' = journal /\ undo' = journal.ops
    /\ held' = Nothing
    /\ UNCHANGED <<disk, cmd, run, journal, kept, swap>>

\* What the rollback leaves where it is, and reports.
Preserved(op) ==
    \/ ~VerifyParent
    \/ op.kind = "exchange"
    \/ At(Active) = 0
    \/ ~SameIdentity(Signature(Active), op.new)
Precheck ==
    /\ pc = "undo" /\ undo # <<>>
    /\ IF Preserved(Last(undo))
       THEN undo' = Front(undo) /\ UNCHANGED <<pc, held>>
       ELSE pc' = "seize" /\ held' = Signature(Active) /\ UNCHANGED undo
    /\ UNCHANGED <<disk, kind, cmd, run, mem, journal, kept, swap>>

\* rename_noreplace moves whatever has the name now to a recovery name.
\* Mutant: the file that passed the precheck is removed.
RemoveChecked ==
    /\ pc = "seize" /\ dir' = Without(Active)
    /\ pc' = "undo" /\ undo' = Front(undo)
    /\ UNCHANGED <<file, parent, staged, xattrs, made, kind, cmd, run, mem,
                   journal, kept, held, swap, moves>>
Seize ==
    /\ pc = "seize"
    /\ IF At(Active) # 0 /\ Aside(Last(undo).cmd) \notin DOMAIN dir
       THEN /\ dir' = [n \in (DOMAIN dir \ {Active}) \cup {Aside(Last(undo).cmd)} |->
                          IF n = Aside(Last(undo).cmd) THEN At(Active) ELSE dir[n]]
            /\ file' = Touched({At(Active)})
            /\ pc' = "seized" /\ UNCHANGED undo
       ELSE pc' = "undo" /\ undo' = Front(undo) /\ UNCHANGED <<dir, file>>
    /\ UNCHANGED <<parent, staged, xattrs, made, kind, cmd, run, mem, journal,
                   kept, held, swap, moves>>

\* A file that is not the one of the precheck gets its name back, when free.
CheckSeized ==
    /\ pc = "seized"
    /\ LET aside == Aside(Last(undo).cmd)
           back == /\ VerifyParent /\ At(aside) # 0 /\ At(Active) = 0
                   /\ ~NamespaceMatches(Signature(aside), held)
       IN  /\ dir' = IF back THEN With(Active, At(aside)) ELSE dir
           /\ file' = IF back THEN Touched({At(aside)}) ELSE file
    /\ pc' = "undo" /\ undo' = Front(undo)
    /\ UNCHANGED <<parent, staged, xattrs, made, kind, cmd, run, mem, journal,
                   kept, held, swap, moves>>

EndRollback ==
    /\ pc = "undo" /\ undo = <<>> /\ pc' = "over"
    /\ UNCHANGED <<disk, kind, cmd, run, mem, journal, kept, held, undo, swap>>

\* The helper is killed: whatever is on disk stays there.
Crash ==
    /\ pc \notin {"idle", "exiting", "crashed", "over"}
    /\ pc' = "crashed" /\ undo' = <<>> /\ held' = Nothing
    /\ UNCHANGED <<disk, kind, cmd, run, mem, journal, kept, swap>>

\* Another run of the installer, with its own work directory and journal.
NewRun ==
    /\ pc \in {"idle", "exiting", "crashed", "over"} /\ cmd > 0 /\ run < MaxRuns
    /\ run' = run + 1 /\ pc' = "idle" /\ kind' = "none"
    /\ mem' = Empty /\ journal' = Empty /\ kept' = {} /\ held' = Nothing
    /\ swap' = Nothing /\ undo' = <<>> /\ made' = FALSE
    /\ UNCHANGED <<dir, file, parent, staged, xattrs, cmd, moves>>

-----------------------------------------------------------------------------
\* The owner.  The staging name of a copy or a hook is private to the command;
\* every other name is the owner's to write.
Owner == moves < MaxOwner /\ moves' = moves + 1
helper == <<xattrs, made, pc, kind, cmd, run, mem, journal, kept, held, undo, swap>>
Mine == {n \in DOMAIN dir : n[1] # "stage"}

OwnerEdits == Owner /\ \E n \in Mine, t \in {"plain", "hooked"} :
    /\ file' = [file EXCEPT ![dir[n]] = Written(@, t)]
    /\ UNCHANGED <<dir, parent, staged, helper>>

\* A save by rename takes the name for a new inode; the old one is given up.
OwnerSaves == Owner /\ parent # "missing" /\ \E t \in {"plain", "hooked"} :
    /\ file' = Append([i \in DOMAIN file |->
                  IF i = At(Active) THEN GivenUp(file[i]) ELSE file[i]], New(t, 0))
    /\ dir' = With(Active, Len(file'))
    /\ UNCHANGED <<parent, staged, helper>>

OwnerRemoves == Owner /\ \E n \in Mine :
    /\ dir' = Without(n)
    /\ file' = [file EXCEPT ![dir[n]] = GivenUp(@)]
    /\ UNCHANGED <<parent, staged, helper>>

OwnerMoves ==
    /\ Owner /\ parent # "missing"
    /\ parent' = IF parent = "here" THEN "moved" ELSE "here"
    /\ UNCHANGED <<dir, file, staged, helper>>

OwnerRestages ==
    /\ Owner /\ staged' = IF staged = "shown" THEN "other" ELSE "shown"
    /\ UNCHANGED <<dir, file, parent, helper>>

Create == \E k \in {"copy", "hook"} : BeginCreate(k)
Next ==
    \/ Create \/ MakeParent \/ Look \/ StageFile \/ JournalIntent \/ CheckStaged
    \/ Link \/ LinkRefused \/ CheckLinked \/ Unlink \/ Observe \/ Record
    \/ Propose \/ Confirm \/ Recheck \/ Exchange \/ CheckSwapped
    \/ BeginRollback \/ Precheck \/ Seize \/ CheckSeized \/ EndRollback
    \/ Crash \/ NewRun
    \/ OwnerEdits \/ OwnerSaves \/ OwnerRemoves \/ OwnerMoves \/ OwnerRestages

Spec == Init /\ [][Next]_vars

-----------------------------------------------------------------------------
\* What one needs to know of the disk for the owner's files to survive.
Inodes == [text : {"plain", "hooked", "payload", "shown", "other"},
           mtime : Nat, ctime : Nat, owner : BOOLEAN, run : Nat]
TypeOK ==
    /\ file \in Seq(Inodes)
    /\ \A n \in DOMAIN dir : dir[n] \in DOMAIN file
    /\ staged \in {"shown", "other"} /\ run \in Nat \ {0}

\* Bytes the owner wrote, and did not give up by removing or replacing the
\* name they had, are reachable in every state under a name that no command
\* cleans up: no command, no rollback, no failed save and no kill of the
\* helper takes their last name, although each of them acts on names it
\* looked at earlier.
OwnerKeeps == \A i \in DOMAIN file : file[i].owner => \E n \in Mine : dir[n] = i

IInv == TypeOK /\ OwnerKeeps

\* What a run wrote is on record: a file of this run that has the target name
\* is an operation of the journal on disk, in every state, so also after a
\* kill; and when a failing command gives control back to the shell, a directory
\* that was made is in the journal, in an emergency copy of it or, which is all a
\* disk leaves that refuses both, in a message that names it.
Evidence == {journal} \cup {k.of : k \in kept}
EvidenceOfWrites ==
    /\ \A i \in 1..Len(file) : file[i].run = run /\ At(Active) = i =>
          \E op \in ToSet(journal.ops) : op.new.inode = i
    /\ pc \in {"idle", "exiting", "over"} /\ made /\ kind \notin {"rollback"} =>
          \E j \in Evidence : j.made

\* An update is recorded as applied only if the exchange took out exactly the
\* version that was confirmed and put in exactly the version that was staged,
\* whatever the owner did between the last look and the exchange.
AppliedIsConfirmed ==
    \A op \in ToSet(journal.ops) : op.status = "applied" /\ op.cmd = cmd =>
        /\ NamespaceMatches(swap.out, op.old)
        /\ swap.in.inode = op.new.inode /\ swap.in.mtime = op.new.mtime
=============================================================================
