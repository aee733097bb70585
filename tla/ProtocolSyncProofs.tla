-------------------------- MODULE ProtocolSyncProofs --------------------------
(***************************************************************************)
(* Proofs about ProtocolSync when runs do not overlap, for any number of   *)
(* runs, paths and faults: the repository implements AtomicTree, and what  *)
(* a run leaves behind is harmless to the next.  (With overlapping runs    *)
(* neither holds: a recovery is not exclusive.)                            *)
(***************************************************************************)
EXTENDS ProtocolSync, FiniteSetTheorems, TLAPS

-----------------------------------------------------------------------------
(* The invariant.                                                          *)
Alone == \A p, q \in Processes : Alive(p) /\ Alive(q) => p = q

Pointing == journal.state \in {"prepared", "committed"}

(* A journal that can be read points to a run that has begun; the second   *)
(* file is there only beside a prepared one; and only what was there has a *)
(* backup.                                                                 *)
JournalInv ==
    /\ Pointing => journal.owner \in Processes /\ at[journal.owner] # "new"
    /\ nextFile => journal.state = "prepared"
    /\ journal.state = "prepared" =>
          \A i \in Paths : backup[journal.owner][i] # Absent => i \in journal.present

(* A run that has not come to its staging has left no trace.               *)
Untouched(p) ==
    /\ staged[p] = Empty
    /\ backup[p] = Empty
    /\ present[p] = {}
    /\ Pointing => journal.owner # p

Rollback  == {"checking", "removing", "restoring", "dropping"}
Reading   == Rollback \cup {"removingNext", "removingJournal"}
Recovery  == Reading \cup {"recovering", "disposing"}
Replacing == {"moving", "placing", "writingNext", "committing"}

(* Before a run replaces anything there is no journal.                     *)
StagingInv(p) ==
    /\ at[p] \in {"staging", "scanning", "journaling", "disposing"} =>
          journal.state = "none"
    /\ at[p] \in {"scanning", "journaling"} =>
          staged[p] = Everything(p) /\ backup[p] = Empty
    /\ at[p] = "scanning" =>
          present[p] = {i \in Paths : i < index[p] /\ tree[i] # Absent}
    /\ at[p] = "journaling" => present[p] = {i \in Paths : tree[i] # Absent}

(* An entry that has not been touched.                                     *)
Waits(p, i) ==
    /\ backup[p][i] = Absent
    /\ staged[p][i] = p
    /\ tree[i] # Absent <=> i \in present[p]

(* The entries before the one at hand hold what was staged.                *)
ReplacingInv(p) ==
    /\ at[p] \in Replacing =>
          /\ journal = [state |-> "prepared", owner |-> p, present |-> present[p]]
          /\ nextFile <=> at[p] = "committing"
    /\ at[p] \in {"moving", "placing"} =>
          /\ \A j \in Paths : j < index[p] => tree[j] = p
          /\ \A j \in Paths : j > index[p] => Waits(p, j)
    /\ at[p] = "moving" => Waits(p, index[p]) /\ index[p] \in present[p]
    /\ at[p] = "placing" =>
          /\ tree[index[p]] = Absent
          /\ staged[p][index[p]] = p
          /\ backup[p][index[p]] # Absent <=> index[p] \in present[p]
    /\ at[p] \in {"writingNext", "committing"} => tree = Everything(p)

(* The entries behind the one at hand are rolled back.                     *)
RollbackInv(p) ==
    LET i == index[p]
        q == journal.owner
    IN
    /\ at[p] \in Reading => reads[p] = journal /\ Pointing
    /\ at[p] \in Rollback =>
          /\ journal.state = "prepared"
          /\ \A j \in Paths : j > i => tree[j] = Effective[j]
    /\ at[p] \in {"removing", "restoring"} => backup[q][i] # Absent
    /\ at[p] = "restoring" => tree[i] = Absent
    /\ at[p] = "dropping" =>
          backup[q][i] = Absent /\ i \notin journal.present /\ staged[q][i] = Absent
    /\ at[p] \in {"removingNext", "removingJournal"} => tree = Effective
    /\ at[p] = "removingJournal" => ~nextFile

(* Why a run recovers.                                                     *)
PurposeInv(p) ==
    /\ at[p] \in Recovery => purpose[p] \in {"stale", "failed", "finish"}
    /\ purpose[p] = "failed" => p \in faulty
    /\ at[p] \in Recovery /\ purpose[p] = "stale" => Untouched(p)
    /\ at[p] \in {"new", "staging"} => Untouched(p)

Installed == Effective \in Originals \cup Snapshots

RunInv(p) == StagingInv(p) /\ ReplacingInv(p) /\ RollbackInv(p) /\ PurposeInv(p)

IInv ==
    /\ SyncTypeOK
    /\ Alone
    /\ JournalInv
    /\ Installed
    /\ LeftoversAreHarmless
    /\ \A p \in Processes : RunInv(p)

-----------------------------------------------------------------------------
LEMMA Numbers ==
    /\ Entries \in Nat /\ Entries > 1 /\ Runs \in Nat /\ Runs > 0
    /\ Source \in Paths /\ Lock \in Paths /\ Source # Lock
    /\ Original \in Contents /\ Absent \in Contents /\ Broken \in Contents
    /\ Absent # Original /\ Absent # Broken
    /\ \A p \in Processes : p \in Contents /\ p # Absent /\ p \in Nat
    /\ \A i \in Paths : i \in Nat /\ i >= 1 /\ i <= Entries
BY SyncAssumption DEF Source, Lock, Paths, Original, Absent, Broken, Contents, Processes

(* Without a prepared journal the repository is what it looks like.        *)
LEMMA EffectiveIsTree ==
    ASSUME SyncTypeOK, journal.state # "prepared"
    PROVE  Effective = tree
BY DEF Effective, SyncTypeOK

(* The kinds of contents a whole repository may have.                      *)
LEMMA TreesAreTyped ==
    /\ Originals \subseteq [Paths -> Contents]
    /\ Snapshots \subseteq [Paths -> Contents]
    /\ Empty \in [Paths -> Contents]
    /\ \A p \in Processes : Everything(p) \in [Paths -> Contents]
    /\ \A t \in Originals \cup Snapshots : t[Lock] # Absent
<1>1. Originals \subseteq [Paths -> Contents]
  BY Numbers DEF Originals
<1>2. \A p \in Processes : Everything(p) \in [Paths -> Contents]
  BY Numbers DEF Everything
<1>3. Empty \in [Paths -> Contents]
  BY Numbers DEF Empty, Everything
<1>4. \A t \in Originals : t[Lock] # Absent
  BY Numbers DEF Originals
<1>5. \A t \in Snapshots : t[Lock] # Absent
  BY Numbers DEF Snapshots, Everything
<1>6. QED
  BY <1>1, <1>2, <1>3, <1>4, <1>5 DEF Snapshots

LEMMA JournalsAreTyped ==
    /\ NoJournal \in Journals
    /\ \A p \in Processes, s \in SUBSET Paths, k \in {"torn", "prepared", "committed"} :
          [state |-> k, owner |-> p, present |-> s] \in Journals
BY Numbers DEF NoJournal, Journals, Processes

-----------------------------------------------------------------------------
(* A run that reads reads what is there, and knows whose it is.            *)
LEMMA ReadsJournal ==
    ASSUME IInv, NEW p \in Processes, at[p] \in Reading
    PROVE  reads[p] = journal /\ Pointing /\ journal.owner \in Processes
BY DEF IInv, RunInv, RollbackInv, JournalInv

(* Types are kept, variable by variable.                                   *)
LEMMA StepTree ==
    ASSUME IInv, NEW p \in Processes, Step(p)
    PROVE  tree' \in [Paths -> Contents]
<1>1. CASE tree' = tree
  BY <1>1 DEF IInv, SyncTypeOK
<1>2. CASE \E i \in Paths, c \in Contents : tree' = [tree EXCEPT ![i] = c]
  BY <1>2 DEF IInv, SyncTypeOK
<1>3. index[p] \in Paths /\ staged[p][index[p]] \in Contents
  BY DEF IInv, SyncTypeOK
<1>4. Absent \in Contents
  BY Numbers
<1>5. CASE PlaceStaged(p) \/ RemoveTarget(p) \/ DropTarget(p) \/ MoveToBackup(p)
  BY <1>1, <1>2, <1>3, <1>4, <1>5 DEF PlaceStaged, RemoveTarget, DropTarget, MoveToBackup
<1>6. CASE RestoreBackup(p)
  <2>1. reads[p].owner \in Processes
    BY <1>6, ReadsJournal DEF RestoreBackup, Reading, Rollback
  <2>2. backup[reads[p].owner][index[p]] \in Contents
    BY <1>3, <2>1 DEF IInv, SyncTypeOK
  <2>3. QED
    BY <1>1, <1>2, <1>3, <1>6, <2>2 DEF RestoreBackup
<1>7. QED
  BY <1>1, <1>5, <1>6 DEF Step, Begin, ReadJournal, Stage, Scan, WriteJournal, WriteNext,
     CommitJournal, CheckEntry, RemoveNext, RemoveJournal, Dispose, CleanUp, files

LEMMA StepStaged ==
    ASSUME IInv, NEW p \in Processes, Step(p)
    PROVE  staged' \in [Processes -> [Paths -> Contents]]
<1>1. CASE UNCHANGED staged
  BY <1>1 DEF IInv, SyncTypeOK
<1>2. CASE \E q \in Processes, t \in [Paths -> Contents] : staged' = [staged EXCEPT ![q] = t]
  BY <1>2 DEF IInv, SyncTypeOK
<1>3. CASE PlaceStaged(p)
  <2>1. CASE staged' = [staged EXCEPT ![p][index[p]] = Absent]
    <3>1. [staged[p] EXCEPT ![index[p]] = Absent] \in [Paths -> Contents]
      BY Numbers DEF IInv, SyncTypeOK
    <3>2. QED
      BY <1>2, <2>1, <3>1
  <2>2. QED
    BY <1>1, <1>3, <2>1 DEF PlaceStaged
<1>4. CASE Stage(p)
  BY <1>1, <1>2, <1>4, TreesAreTyped DEF Stage
<1>5. CASE Dispose(p)
  <2>1. \A q : q \notin Processes => [staged EXCEPT ![q] = Empty] = staged
    BY DEF IInv, SyncTypeOK
  <2>2. QED
    BY <1>1, <1>2, <1>5, <2>1, TreesAreTyped DEF Dispose, Clear
<1>6. CASE CleanUp(p)
  BY <1>1, <1>2, <1>6, TreesAreTyped DEF CleanUp, Clear
<1>7. QED
  BY <1>1, <1>3, <1>4, <1>5, <1>6 DEF Step, Begin, ReadJournal, Scan, WriteJournal,
     MoveToBackup, WriteNext, CommitJournal, CheckEntry, RemoveTarget, RestoreBackup,
     DropTarget, RemoveNext, RemoveJournal, files

LEMMA StepBackup ==
    ASSUME IInv, NEW p \in Processes, Step(p)
    PROVE  backup' \in [Processes -> [Paths -> Contents]]
<1>1. CASE UNCHANGED backup
  BY <1>1 DEF IInv, SyncTypeOK
<1>2. CASE \E q \in Processes, t \in [Paths -> Contents] : backup' = [backup EXCEPT ![q] = t]
  BY <1>2 DEF IInv, SyncTypeOK
<1>3. CASE \E q \in Processes, i \in Paths, c \in Contents :
                backup' = [backup EXCEPT ![q][i] = c]
  <2>1. PICK q \in Processes, i \in Paths, c \in Contents :
                backup' = [backup EXCEPT ![q][i] = c]
    BY <1>3
  <2>2. [backup[q] EXCEPT ![i] = c] \in [Paths -> Contents]
    BY DEF IInv, SyncTypeOK
  <2>3. QED
    BY <1>2, <2>1, <2>2
<1>4. index[p] \in Paths /\ tree[index[p]] \in Contents
  BY DEF IInv, SyncTypeOK
<1>5. CASE MoveToBackup(p)
  BY <1>1, <1>3, <1>4, <1>5 DEF MoveToBackup
<1>6. CASE RestoreBackup(p)
  <2>1. reads[p].owner \in Processes
    BY <1>6, ReadsJournal DEF RestoreBackup, Reading, Rollback
  <2>2. QED
    BY <1>1, <1>3, <1>4, <1>6, <2>1, Numbers DEF RestoreBackup
<1>7. CASE Dispose(p)
  <2>1. \A q : q \notin Processes => [backup EXCEPT ![q] = Empty] = backup
    BY DEF IInv, SyncTypeOK
  <2>2. QED
    BY <1>1, <1>2, <1>7, <2>1, TreesAreTyped DEF Dispose, Clear
<1>8. CASE CleanUp(p)
  BY <1>1, <1>2, <1>8, TreesAreTyped DEF CleanUp, Clear
<1>9. QED
  BY <1>1, <1>5, <1>6, <1>7, <1>8 DEF Step, Begin, ReadJournal, Stage, Scan, WriteJournal,
     PlaceStaged, WriteNext, CommitJournal, CheckEntry, RemoveTarget, DropTarget,
     RemoveNext, RemoveJournal, files

LEMMA StepJournal ==
    ASSUME IInv, NEW p \in Processes, Step(p)
    PROVE  journal' \in Journals /\ nextFile' \in BOOLEAN
<1>1. present[p] \in SUBSET Paths
  BY DEF IInv, SyncTypeOK
<1>2. \/ journal' = journal
      \/ journal' = NoJournal
      \/ \E k \in {"torn", "prepared", "committed"} :
            journal' = [state |-> k, owner |-> p, present |-> present[p]]
  BY DEF Step, Begin, ReadJournal, Stage, Scan,
     WriteJournal, MoveToBackup, PlaceStaged, WriteNext, CommitJournal, CheckEntry,
     RemoveTarget, RestoreBackup, DropTarget, RemoveNext, RemoveJournal, Dispose,
     CleanUp, files
<1>3. journal' \in Journals
  BY <1>1, <1>2, JournalsAreTyped DEF IInv, SyncTypeOK
<1>4. nextFile' = nextFile \/ nextFile' = TRUE \/ nextFile' = FALSE
  BY DEF Step, Begin, ReadJournal, Stage, Scan, WriteJournal, MoveToBackup,
     PlaceStaged, WriteNext, CommitJournal, CheckEntry, RemoveTarget, RestoreBackup,
     DropTarget, RemoveNext, RemoveJournal, Dispose, CleanUp, files
<1>5. QED
  BY <1>3, <1>4 DEF IInv, SyncTypeOK

(* A step moves its own run only, and never back to the beginning.         *)
Act(p) == Step(p) \/ Fails(p) \/ Killed(p)

LEMMA Moves ==
    ASSUME IInv, NEW p \in Processes, Act(p)
    PROVE  /\ at' \in [Processes -> Places]
           /\ at'[p] # "new"
           /\ \A q \in Processes \ {p} : at'[q] = at[q]
<1>1. CASE \E x \in Places \ {"new"} : at' = [at EXCEPT ![p] = x]
  BY <1>1 DEF IInv, SyncTypeOK
<1>2. CASE Scan(p)
  BY <1>1, <1>2 DEF Scan, GoTo, IInv, SyncTypeOK, Places
<1>3. CASE Begin(p) \/ ReadJournal(p) \/ Stage(p) \/ WriteJournal(p)
  BY <1>1, <1>3 DEF Begin, ReadJournal, Stage, WriteJournal, StartEntry, Throw, GoTo, Places
<1>4. CASE MoveToBackup(p) \/ PlaceStaged(p) \/ WriteNext(p) \/ CommitJournal(p)
  BY <1>1, <1>4 DEF MoveToBackup, PlaceStaged, StartEntry, WriteNext, CommitJournal,
     Throw, GoTo, Places
<1>5. CASE CheckEntry(p) \/ RemoveTarget(p) \/ RestoreBackup(p) \/ DropTarget(p)
  BY <1>1, <1>5 DEF CheckEntry, RemoveTarget, RestoreBackup, DropTarget, NextEntry,
     Throw, GoTo, Places
<1>6. CASE RemoveNext(p) \/ RemoveJournal(p) \/ Dispose(p) \/ CleanUp(p)
  BY <1>1, <1>6 DEF RemoveNext, RemoveJournal, Dispose, CleanUp, Throw, GoTo, Places
<1>7. CASE Fails(p) \/ Killed(p)
  BY <1>1, <1>7 DEF Fails, Killed, Throw, GoTo, Places
<1>8. QED
  BY <1>2, <1>3, <1>4, <1>5, <1>6, <1>7 DEF Act, Step

LEMMA StepLocal ==
    ASSUME IInv, NEW p \in Processes, Act(p)
    PROVE  /\ index' \in [Processes -> Paths]
           /\ present' \in [Processes -> SUBSET Paths]
           /\ reads' \in [Processes -> Journals]
           /\ purpose' \in [Processes -> {"none", "stale", "failed", "finish"}]
           /\ \A q \in Processes \ {p} : present'[q] = present[q] /\ purpose'[q] = purpose[q]
<1>1. index' = index \/ \E i \in Paths : index' = [index EXCEPT ![p] = i]
  <2>1. 1 \in Paths /\ Entries \in Paths
    BY Numbers DEF Paths
  <2>2. index[p] \in Paths
    BY DEF IInv, SyncTypeOK
  <2>3. index[p] < Entries => index[p] + 1 \in Paths
    BY <2>2, Numbers DEF Paths
  <2>4. index[p] > 1 => index[p] - 1 \in Paths
    BY <2>2, Numbers DEF Paths
  <2>5. QED
    BY <2>1, <2>3, <2>4 DEF Act, Step, Fails, Killed, Begin, ReadJournal, Stage, Scan,
       WriteJournal, MoveToBackup, PlaceStaged, WriteNext, CommitJournal, CheckEntry,
       RemoveTarget, RestoreBackup, DropTarget, RemoveNext, RemoveJournal, Dispose,
       CleanUp, NextEntry, StartEntry, SetIndex, Throw, local
<1>2. present' = present \/ \E s \in SUBSET Paths : present' = [present EXCEPT ![p] = s]
  <2>1. present[p] \in SUBSET Paths /\ present[p] \cup {index[p]} \in SUBSET Paths
    BY DEF IInv, SyncTypeOK
  <2>2. CASE Scan(p)
    <3>1. \/ present' = [present EXCEPT ![p] = present[p]]
          \/ present' = [present EXCEPT ![p] = present[p] \cup {index[p]}]
      BY <2>2 DEF Scan
    <3>2. QED
      BY <2>1, <3>1
  <2>3. CASE ~Scan(p)
    BY <2>3 DEF Act, Step, Fails, Killed, Begin, ReadJournal, Stage, WriteJournal,
       MoveToBackup, PlaceStaged, WriteNext, CommitJournal, CheckEntry, RemoveTarget,
       RestoreBackup, DropTarget, RemoveNext, RemoveJournal, Dispose, CleanUp, Throw, local
  <2>4. QED
    BY <2>2, <2>3
<1>3. reads' = reads \/ reads' = [reads EXCEPT ![p] = journal]
  BY DEF Act, Step, Fails, Killed, Begin, ReadJournal, Stage, Scan, WriteJournal,
     MoveToBackup, PlaceStaged, WriteNext, CommitJournal, CheckEntry, RemoveTarget,
     RestoreBackup, DropTarget, RemoveNext, RemoveJournal, Dispose, CleanUp, Throw, local
<1>4. \/ purpose' = purpose
      \/ purpose' = [purpose EXCEPT ![p] = "stale"]
      \/ purpose' = [purpose EXCEPT ![p] = "failed"]
      \/ purpose' = [purpose EXCEPT ![p] = "finish"]
  <2>1. CASE Fails(p) \/ Killed(p) \/ ReadJournal(p) \/ RestoreBackup(p) \/ RemoveJournal(p)
    BY <2>1 DEF Fails, Killed, ReadJournal, RestoreBackup, RemoveJournal, Throw, local
  <2>2. CASE WriteJournal(p) \/ MoveToBackup(p) \/ PlaceStaged(p) \/ WriteNext(p)
               \/ CommitJournal(p) \/ Stage(p)
    BY <2>2 DEF WriteJournal, MoveToBackup, PlaceStaged, WriteNext, CommitJournal, Stage,
       Throw, local
  <2>3. CASE Begin(p) \/ Scan(p) \/ CheckEntry(p) \/ RemoveTarget(p) \/ DropTarget(p)
               \/ RemoveNext(p) \/ Dispose(p) \/ CleanUp(p)
    BY <2>3 DEF Begin, Scan, CheckEntry, RemoveTarget, DropTarget, RemoveNext, Dispose,
       CleanUp, local
  <2>4. QED
    BY <2>1, <2>2, <2>3 DEF Act, Step
<1>5. index' \in [Processes -> Paths] /\ present' \in [Processes -> SUBSET Paths]
  <2>1. index' \in [Processes -> Paths]
    BY <1>1 DEF IInv, SyncTypeOK
  <2>2. present \in [Processes -> SUBSET Paths]
    BY DEF IInv, SyncTypeOK
  <2>3. present' \in [Processes -> SUBSET Paths]
    BY <1>2, <2>2
  <2>4. QED
    BY <2>1, <2>3
<1>6. /\ reads' \in [Processes -> Journals]
      /\ purpose' \in [Processes -> {"none", "stale", "failed", "finish"}]
  <2>1. /\ journal \in Journals /\ reads \in [Processes -> Journals]
        /\ purpose \in [Processes -> {"none", "stale", "failed", "finish"}]
    BY DEF IInv, SyncTypeOK
  <2>2. reads' \in [Processes -> Journals]
    BY <1>3, <2>1
  <2>3. purpose' \in [Processes -> {"none", "stale", "failed", "finish"}]
    BY <1>4, <2>1
  <2>4. QED
    BY <2>2, <2>3
<1>7. \A q \in Processes \ {p} : present'[q] = present[q]
  BY <1>2 DEF IInv, SyncTypeOK
<1>8. \A q \in Processes \ {p} : purpose'[q] = purpose[q]
  BY <1>4 DEF IInv, SyncTypeOK
<1>9. QED
  BY <1>5, <1>6, <1>7, <1>8

(* No call of the file system meets what would make it throw.              *)
LEMMA NothingIsInTheWay ==
    ASSUME IInv, NEW p \in Processes
    PROVE  /\ at[p] = "recovering" /\ Pointing =>
                 ~((journal.owner # p \/ purpose[p] = "stale") /\ Alive(journal.owner))
           /\ at[p] = "staging" => tree[Lock] # Absent
           /\ at[p] = "journaling" => journal.state = "none"
           /\ at[p] = "moving" => tree[index[p]] # Absent
           /\ at[p] = "placing" => staged[p][index[p]] # Absent /\ tree[index[p]] = Absent
           /\ at[p] = "writingNext" => ~nextFile
           /\ at[p] = "committing" => nextFile
           /\ at[p] = "restoring" =>
                 backup[reads[p].owner][index[p]] # Absent /\ tree[index[p]] = Absent
           /\ at[p] = "removingJournal" => journal.state # "none"
<1>1. RunInv(p) /\ JournalInv /\ Alone /\ Installed /\ SyncTypeOK
  BY DEF IInv
<1>2. ASSUME at[p] = "recovering", Pointing, Alive(journal.owner),
             journal.owner # p \/ purpose[p] = "stale"
      PROVE  FALSE
  <2>1. journal.owner = p
    BY <1>1, <1>2 DEF Alone, Alive, JournalInv
  <2>2. Untouched(p)
    BY <1>1, <1>2, <2>1 DEF RunInv, PurposeInv, Recovery
  <2>3. QED
    BY <1>2, <2>1, <2>2 DEF Untouched
<1>3. ASSUME at[p] = "staging" PROVE tree[Lock] # Absent
  <2>1. journal.state # "prepared"
    BY <1>1, <1>3 DEF RunInv, StagingInv
  <2>2. tree \in Originals \cup Snapshots
    BY <1>1, <2>1, EffectiveIsTree DEF Installed
  <2>3. QED
    BY <2>2, TreesAreTyped
<1>4. ASSUME at[p] \in {"moving", "placing", "writingNext", "committing"}
      PROVE  /\ at[p] = "moving" => tree[index[p]] # Absent
             /\ at[p] = "placing" => staged[p][index[p]] # Absent /\ tree[index[p]] = Absent
             /\ at[p] = "writingNext" => ~nextFile
             /\ at[p] = "committing" => nextFile
  BY <1>1, <1>4, Numbers DEF RunInv, ReplacingInv, Replacing, Waits
<1>5. ASSUME at[p] \in {"restoring", "removingJournal"}
      PROVE  /\ at[p] = "restoring" =>
                   backup[reads[p].owner][index[p]] # Absent /\ tree[index[p]] = Absent
             /\ at[p] = "removingJournal" => journal.state # "none"
  BY <1>1, <1>5, ReadsJournal DEF RunInv, RollbackInv, Reading, Rollback, Pointing
<1>6. at[p] = "journaling" => journal.state = "none"
  BY <1>1 DEF RunInv, StagingInv
<1>7. QED
  BY <1>2, <1>3, <1>4, <1>5, <1>6

(* A run only fails on account of a fault, and remembers why it rolls back.*)
LEMMA StepOutcome ==
    ASSUME IInv, NEW p \in Processes, Act(p)
    PROVE  /\ outcome' \in [Processes -> {"none", "ok", "failed", "killed"}]
           /\ faulty' \subseteq Processes /\ faulty \subseteq faulty'
           /\ faults' \in 0 .. MaxFaults
           /\ outcome'[p] = "failed" => p \in faulty'
           /\ purpose'[p] = "failed" => p \in faulty'
           /\ \A q \in Processes \ {p} : outcome'[q] = outcome[q]
<1> DEFINE Kept == UNCHANGED <<outcome, purpose, faulty, faults>>
           Fine == /\ \/ UNCHANGED outcome
                      \/ outcome' = [outcome EXCEPT ![p] = "ok"]
                   /\ \/ UNCHANGED purpose
                      \/ \E x \in {"stale", "finish"} : purpose' = [purpose EXCEPT ![p] = x]
                   /\ UNCHANGED <<faulty, faults>>
           Excused == /\ p \in faulty' /\ faulty \subseteq faulty' /\ faulty' \subseteq Processes
                      /\ \E x \in {"ok", "failed", "killed"} :
                            outcome' \in {outcome, [outcome EXCEPT ![p] = x]}
                      /\ faults' \in 0 .. MaxFaults
<1>1. faults \in 0 .. MaxFaults /\ faulty \subseteq Processes
  BY DEF IInv, SyncTypeOK
<1>2. CASE Fine
  BY <1>1, <1>2 DEF IInv, SyncTypeOK, RunInv, PurposeInv, LeftoversAreHarmless
<1>3. CASE Excused
  BY <1>3 DEF IInv, SyncTypeOK, RunInv, PurposeInv, LeftoversAreHarmless
<1>4. CASE Begin(p) \/ Scan(p) \/ CheckEntry(p) \/ RemoveTarget(p) \/ DropTarget(p)
            \/ RemoveNext(p) \/ CleanUp(p)
  BY <1>2, <1>4 DEF Begin, Scan, CheckEntry, RemoveTarget, DropTarget, RemoveNext, CleanUp,
     NoFault, local
<1>5. CASE Stage(p) \/ WriteJournal(p) \/ MoveToBackup(p) \/ PlaceStaged(p)
            \/ WriteNext(p) \/ CommitJournal(p) \/ RestoreBackup(p) \/ RemoveJournal(p)
  BY <1>2, <1>5, NothingIsInTheWay DEF Stage, WriteJournal, MoveToBackup, PlaceStaged,
     WriteNext, CommitJournal, RestoreBackup, RemoveJournal, local
<1>6. CASE Fails(p) \/ Killed(p)
  <2>1. faulty' = faulty \cup {p} /\ faults' \in 0 .. MaxFaults
    BY <1>1, <1>6, SyncAssumption DEF Fails, Killed, Fault
  <2>2. \/ outcome' = outcome
        \/ outcome' = [outcome EXCEPT ![p] = "failed"]
        \/ outcome' = [outcome EXCEPT ![p] = IF @ = "none" THEN "killed" ELSE @]
    BY <1>6 DEF Fails, Killed, Throw
  <2>3. \E x \in {"ok", "failed", "killed"} :
            outcome' \in {outcome, [outcome EXCEPT ![p] = x]}
    BY <2>2 DEF IInv, SyncTypeOK
  <2>4. QED
    BY <1>1, <1>3, <2>1, <2>3
<1>7. CASE Dispose(p)
  <2>1. at[p] \in Recovery
    BY <1>7 DEF Dispose, Recovery
  <2>2. CASE purpose[p] = "failed"
    <3>1. p \in faulty
      BY <2>2 DEF IInv, RunInv, PurposeInv
    <3>2. QED
      BY <1>1, <1>3, <1>7, <2>2, <3>1 DEF Dispose
  <2>3. CASE purpose[p] \in {"stale", "finish"}
    BY <1>2, <1>7, <2>3 DEF Dispose, local
  <2>4. QED
    BY <2>1, <2>2, <2>3 DEF IInv, RunInv, PurposeInv
<1>8. CASE ReadJournal(p)
  <2>1. at[p] \in Recovery
    BY <1>8 DEF ReadJournal, Recovery
  <2>2. CASE journal.state = "none" /\ purpose[p] = "failed"
    <3>1. p \in faulty
      BY <2>2 DEF IInv, RunInv, PurposeInv
    <3>2. QED
      BY <1>1, <1>3, <1>8, <2>2, <3>1 DEF ReadJournal
  <2>3. CASE journal.state = "none" /\ purpose[p] \in {"stale", "finish"}
    BY <1>2, <1>8, <2>3 DEF ReadJournal, local
  <2>4. CASE journal.state = "torn"
    BY <1>1, <1>3, <1>8, <2>4 DEF ReadJournal, Throw
  <2>5. CASE Pointing
    BY <1>2, <1>8, <2>5, NothingIsInTheWay DEF ReadJournal, Pointing, NoFault
  <2>6. QED
    BY <2>1, <2>2, <2>3, <2>4, <2>5 DEF IInv, RunInv, PurposeInv, SyncTypeOK, Journals,
       Pointing
<1>9. QED
  BY <1>4, <1>5, <1>6, <1>7, <1>8 DEF Act, Step

-----------------------------------------------------------------------------
(* While a run steps, no other is under way.                               *)
LEMMA NobodyElse ==
    ASSUME MaxRunning <= 1, IInv, NEW p \in Processes, Act(p)
    PROVE  \A q \in Processes \ {p} : ~Alive(q)
<1>1. CASE Alive(p)
  BY <1>1 DEF IInv, Alone
<1>2. CASE Begin(p)
  <2> DEFINE running == {q \in Processes : Alive(q)}
  <2>1. IsFiniteSet(running)
    <3>1. IsFiniteSet(Processes)
      BY FS_Interval, Numbers DEF Processes
    <3>2. QED
      BY <3>1, FS_Subset
  <2>2. Cardinality(running) \in Nat
    BY <2>1, FS_CardinalityType
  <2>3. Cardinality(running) = 0
    BY <1>2, <2>2, SyncAssumption DEF Begin
  <2>4. running = {}
    BY <2>1, <2>3, FS_EmptySet
  <2>5. QED
    BY <2>4
<1>3. Alive(p) \/ Begin(p)
  BY DEF Act, Step, Alive, ReadJournal, Stage, Scan, WriteJournal, MoveToBackup,
     PlaceStaged, WriteNext, CommitJournal, CheckEntry, RemoveTarget, RestoreBackup,
     DropTarget, RemoveNext, RemoveJournal, Dispose, CleanUp, Fails, Killed
<1>4. QED
  BY <1>1, <1>2, <1>3

(* What a run may do to what is not its own.                               *)
LEMMA OthersFiles ==
    ASSUME IInv, NEW p \in Processes, Act(p), NEW q \in Processes \ {p}, at[q] = "new"
    PROVE  /\ staged'[q] \in {staged[q], Empty}
           /\ backup'[q] \in {backup[q], Empty}
           /\ Pointing' => (Pointing /\ journal' = journal) \/ journal'.owner = p
<1>1. staged'[q] \in {staged[q], Empty}
  BY DEF IInv, SyncTypeOK, Act, Step, Fails, Killed, Interrupted, Begin, ReadJournal,
     Stage, Scan, WriteJournal, MoveToBackup, PlaceStaged, WriteNext, CommitJournal,
     CheckEntry, RemoveTarget, RestoreBackup, DropTarget, RemoveNext, RemoveJournal,
     Dispose, CleanUp, Clear, files
<1>2. backup'[q] \in {backup[q], Empty}
  <2>1. CASE RestoreBackup(p)
    <3>1. reads[p].owner # q
      BY <2>1, ReadsJournal DEF RestoreBackup, Reading, Rollback, IInv, JournalInv
    <3>2. QED
      BY <2>1, <3>1 DEF RestoreBackup, IInv, SyncTypeOK
  <2>2. CASE ~RestoreBackup(p)
    BY <2>2 DEF IInv, SyncTypeOK, Act, Step, Fails, Killed, Interrupted, Begin,
       ReadJournal, Stage, Scan, WriteJournal, MoveToBackup, PlaceStaged, WriteNext,
       CommitJournal, CheckEntry, RemoveTarget, DropTarget, RemoveNext, RemoveJournal,
       Dispose, CleanUp, Clear, files
  <2>3. QED
    BY <2>1, <2>2
<1>3. Pointing' => (Pointing /\ journal' = journal) \/ journal'.owner = p
  BY DEF Pointing, NoJournal, Act, Step, Fails, Killed, Interrupted, Begin, ReadJournal,
     Stage, Scan, WriteJournal, MoveToBackup, PlaceStaged, WriteNext, CommitJournal,
     CheckEntry, RemoveTarget, RestoreBackup, DropTarget, RemoveNext, RemoveJournal,
     Dispose, CleanUp, files
<1>4. QED
  BY <1>1, <1>2, <1>3

LEMMA OthersRest ==
    ASSUME MaxRunning <= 1, IInv, NEW p \in Processes, Act(p)
    PROVE  Alone' /\ \A q \in Processes \ {p} : RunInv(q)'
<1>1. \A q \in Processes \ {p} : at'[q] = at[q] /\ at[q] \in {"new", "gone"}
  BY NobodyElse, Moves DEF Alive
<1>2. Alone'
  BY <1>1 DEF Alone, Alive
<1>3. ASSUME NEW q \in Processes \ {p} PROVE RunInv(q)'
  <2>1. at'[q] \in {"new", "gone"}
    BY <1>1
  <2>2. purpose'[q] = "failed" => q \in faulty'
    BY StepLocal, StepOutcome DEF IInv, RunInv, PurposeInv
  <2>3. at'[q] = "new" => Untouched(q)'
    <3>1. SUFFICES ASSUME at[q] = "new" PROVE Untouched(q)'
      BY <1>1
    <3>2. Untouched(q)
      BY <3>1 DEF IInv, RunInv, PurposeInv
    <3>3. present'[q] = present[q]
      BY StepLocal
    <3>4. QED
      BY <3>1, <3>2, <3>3, OthersFiles DEF Untouched, Empty, Everything, Pointing
  <2>4. QED
    BY <2>1, <2>2, <2>3 DEF RunInv, StagingInv, ReplacingInv, RollbackInv, PurposeInv,
       Replacing, Recovery, Reading, Rollback
<1>4. QED
  BY <1>2, <1>3

(* A run that is over owes nothing, and one that has failed in its         *)
(* replacement has everything to read anew.                                *)
LEMMA EndedInv ==
    ASSUME NEW p \in Processes, purpose'[p] = "failed" => p \in faulty',
           \/ at'[p] \in {"cleaning", "gone"}
           \/ at'[p] = "recovering" /\ purpose'[p] \in {"failed", "finish"}
    PROVE  RunInv(p)'
BY DEF RunInv, StagingInv, ReplacingInv, RollbackInv, PurposeInv, Replacing, Recovery,
   Reading, Rollback

-----------------------------------------------------------------------------
(* One lemma for each action: what the repository amounts to stays, unless *)
(* the run commits, and the run is where the invariant says.               *)
Kept(p) == JournalInv' /\ RunInv(p)' /\ Effective' \in Snapshots \cup {Effective}

LEMMA SameEffective ==
    ASSUME SyncTypeOK,
           \/ UNCHANGED <<tree, staged, backup, journal>>
           \/ tree' = tree /\ journal.state # "prepared" /\ journal'.state # "prepared"
    PROVE  Effective' = Effective
<1>1. CASE UNCHANGED <<tree, staged, backup, journal>>
  BY <1>1 DEF Effective
<1>2. CASE tree' = tree /\ journal.state # "prepared" /\ journal'.state # "prepared"
  BY <1>2 DEF Effective
<1>3. QED
  BY <1>1, <1>2

LEMMA SameJournal ==
    ASSUME IInv, NEW p \in Processes, Act(p), UNCHANGED <<backup, journal, nextFile>>
    PROVE  JournalInv'
BY Moves DEF JournalInv, Pointing, IInv

LEMMA BeginKeeps ==
    ASSUME IInv, NEW p \in Processes, Begin(p)
    PROVE  Kept(p)
<1>1. UNCHANGED files /\ at[p] = "new" /\ UNCHANGED <<present, faulty>>
  BY DEF Begin, NoFault
<1>2. at'[p] = "recovering" /\ purpose'[p] = "stale"
  BY DEF Begin, GoTo, IInv, SyncTypeOK
<1>3. Untouched(p)
  BY <1>1 DEF IInv, RunInv, PurposeInv
<1>4. Untouched(p)'
  BY <1>1, <1>3 DEF Untouched, files, Pointing, Empty, Everything
<1>5. RunInv(p)'
  BY <1>2, <1>4 DEF RunInv, StagingInv, ReplacingInv, RollbackInv, PurposeInv, Replacing,
     Recovery, Reading, Rollback
<1>6. JournalInv' /\ Effective' = Effective
  BY <1>1, SameJournal, SameEffective DEF files, IInv, Act, Step
<1>7. QED
  BY <1>5, <1>6 DEF Kept

LEMMA ReadJournalKeeps ==
    ASSUME IInv, NEW p \in Processes, ReadJournal(p)
    PROVE  Kept(p)
<1>1. UNCHANGED <<tree, staged, backup, journal, nextFile>> /\ at[p] = "recovering"
  BY DEF ReadJournal, files
<1>2. JournalInv' /\ Effective' = Effective
  BY <1>1, SameJournal, SameEffective DEF IInv, Act, Step
<1>3. purpose'[p] = "failed" => p \in faulty'
  BY StepOutcome DEF Act, Step
<1>4. at \in [Processes -> Places] /\ index \in [Processes -> Paths]
       /\ reads \in [Processes -> Journals] /\ journal \in Journals
  BY DEF IInv, SyncTypeOK
<1>5. purpose[p] \in {"stale", "failed", "finish"} /\ (purpose[p] = "stale" => Untouched(p))
  BY <1>1 DEF IInv, RunInv, PurposeInv, Recovery
<1>6. CASE journal.state = "none" /\ purpose[p] = "stale"
  <2>1. at'[p] = "staging" /\ UNCHANGED <<present, purpose>>
    BY <1>4, <1>6 DEF ReadJournal, GoTo, local
  <2>2. Untouched(p)'
    BY <1>1, <1>5, <1>6, <2>1 DEF Untouched, Pointing, Empty, Everything
  <2>3. RunInv(p)'
    BY <1>1, <1>3, <1>6, <2>1, <2>2 DEF RunInv, StagingInv, ReplacingInv, RollbackInv,
       PurposeInv, Replacing, Recovery, Reading, Rollback
  <2>4. QED
    BY <1>2, <2>3 DEF Kept
<1>7. CASE at'[p] = "cleaning"
  BY <1>2, <1>3, <1>7, EndedInv DEF Kept
<1>8. CASE Pointing /\ at'[p] # "cleaning"
  <2>1. /\ reads' = [reads EXCEPT ![p] = journal]
        /\ UNCHANGED <<present, purpose>>
        /\ IF journal.state = "prepared"
           THEN GoTo(p, "checking") /\ SetIndex(p, Entries)
           ELSE GoTo(p, "removingNext") /\ UNCHANGED index
    BY <1>1, <1>8, NothingIsInTheWay DEF ReadJournal, Pointing
  <2>2. reads'[p] = journal' /\ Pointing'
    BY <1>1, <1>4, <1>8, <2>1 DEF Pointing
  <2>3. purpose[p] = "stale" => Untouched(p)'
    BY <1>1, <1>5, <2>1 DEF Untouched, Pointing, Empty, Everything
  <2>4. CASE journal.state = "prepared"
    <3>1. at'[p] = "checking" /\ index'[p] = Entries
      BY <1>4, <2>1, <2>4 DEF GoTo, SetIndex
    <3>2. \A j \in Paths : j > index'[p] => tree'[j] = Effective'[j]
      BY <3>1, Numbers
    <3>3. QED
      BY <1>1, <1>2, <1>3, <1>5, <2>1, <2>2, <2>3, <2>4, <3>1, <3>2 DEF Kept, RunInv,
         StagingInv, ReplacingInv, RollbackInv, PurposeInv, Replacing, Recovery, Reading,
         Rollback
  <2>5. CASE journal.state # "prepared"
    <3>1. at'[p] = "removingNext"
      BY <1>4, <2>1, <2>5 DEF GoTo
    <3>2. tree' = Effective'
      BY <1>1, <1>2, <2>5, EffectiveIsTree DEF IInv
    <3>3. QED
      BY <1>1, <1>2, <1>3, <1>5, <2>1, <2>2, <2>3, <2>5, <3>1, <3>2 DEF Kept, RunInv,
         StagingInv, ReplacingInv, RollbackInv, PurposeInv, Replacing, Recovery, Reading,
         Rollback
  <2>6. QED
    BY <2>4, <2>5
<1>9. \/ journal.state = "none" /\ purpose[p] = "stale"
      \/ at'[p] = "cleaning"
      \/ Pointing
  BY <1>1, <1>4, <1>5 DEF ReadJournal, Throw, GoTo, Journals, Pointing
<1>10. QED
  BY <1>6, <1>7, <1>8, <1>9

LEMMA StageKeeps ==
    ASSUME IInv, NEW p \in Processes, Stage(p)
    PROVE  Kept(p)
<1>1. /\ at[p] = "staging" /\ tree[Lock] # Absent
      /\ staged' = [staged EXCEPT ![p] = Everything(p)]
      /\ UNCHANGED <<tree, backup, journal, nextFile, present, purpose, faulty>>
      /\ at' = [at EXCEPT ![p] = "scanning"] /\ index' = [index EXCEPT ![p] = 1]
  BY NothingIsInTheWay DEF Stage, GoTo, SetIndex
<1>2. at'[p] = "scanning" /\ index'[p] = 1 /\ staged'[p] = Everything(p)
  BY <1>1 DEF IInv, SyncTypeOK
<1>3. journal.state = "none" /\ Untouched(p)
  BY <1>1 DEF IInv, RunInv, StagingInv, PurposeInv
<1>4. present'[p] = {i \in Paths : i < index'[p] /\ tree'[i] # Absent}
  BY <1>1, <1>2, <1>3, Numbers DEF Untouched
<1>5. RunInv(p)'
  <2>1. purpose'[p] = "failed" => p \in faulty'
    BY StepOutcome DEF Act, Step
  <2>2. Empty' = Empty /\ Everything(p)' = Everything(p)
    BY DEF Empty, Everything
  <2>3. backup'[p] = Empty /\ journal'.state = "none"
    BY <1>1, <1>3 DEF Untouched
  <2>4. QED
    BY <1>2, <1>4, <2>1, <2>2, <2>3 DEF RunInv, StagingInv, ReplacingInv, RollbackInv,
       PurposeInv, Replacing, Recovery, Reading, Rollback
<1>6. JournalInv' /\ Effective' = Effective
  BY <1>1, <1>3, SameJournal, SameEffective DEF IInv, Act, Step
<1>7. QED
  BY <1>5, <1>6 DEF Kept

LEMMA ScanKeeps ==
    ASSUME IInv, NEW p \in Processes, Scan(p)
    PROVE  Kept(p)
<1> DEFINE i == index[p]
<1>1. /\ at[p] = "scanning" /\ UNCHANGED <<tree, staged, backup, journal, nextFile>>
      /\ present' = [present EXCEPT ![p] = IF tree[i] = Absent THEN @ ELSE @ \cup {i}]
      /\ IF i < Entries
         THEN index' = [index EXCEPT ![p] = i + 1] /\ UNCHANGED at
         ELSE at' = [at EXCEPT ![p] = "journaling"] /\ UNCHANGED index
  BY DEF Scan, files, GoTo, SetIndex
<1>2. /\ i \in Paths /\ i \in Nat /\ i <= Entries
      /\ present'[p] = IF tree[i] = Absent THEN present[p] ELSE present[p] \cup {i}
      /\ IF i < Entries THEN index'[p] = i + 1 /\ at'[p] = "scanning"
                        ELSE at'[p] = "journaling"
  BY <1>1, Numbers DEF IInv, SyncTypeOK
<1>3. /\ journal.state = "none" /\ staged[p] = Everything(p) /\ backup[p] = Empty
      /\ present[p] = {j \in Paths : j < i /\ tree[j] # Absent}
  BY <1>1 DEF IInv, RunInv, StagingInv
<1>4. present'[p] = {j \in Paths : j <= i /\ tree[j] # Absent}
  BY <1>2, <1>3, Numbers
<1>5. /\ at'[p] = "scanning" => present'[p] = {j \in Paths : j < index'[p] /\ tree'[j] # Absent}
      /\ at'[p] = "journaling" => present'[p] = {j \in Paths : tree'[j] # Absent}
  <2>1. ASSUME at'[p] = "scanning"
        PROVE  present'[p] = {j \in Paths : j < index'[p] /\ tree'[j] # Absent}
    <3>1. index'[p] = i + 1
      BY <1>2, <2>1
    <3>2. \A j \in Paths : j <= i <=> j < i + 1
      BY <1>2, Numbers
    <3>3. QED
      BY <1>1, <1>4, <3>1, <3>2
  <2>2. ASSUME at'[p] = "journaling"
        PROVE  present'[p] = {j \in Paths : tree'[j] # Absent}
    <3>1. i = Entries
      BY <1>2, <2>2, Numbers
    <3>2. QED
      BY <1>1, <1>4, <3>1, Numbers
  <2>3. QED
    BY <2>1, <2>2
<1>6. RunInv(p)'
  <2>1. purpose'[p] = "failed" => p \in faulty'
    BY StepOutcome DEF Act, Step
  <2>2. at'[p] \in {"scanning", "journaling"}
    BY <1>2
  <2>3. backup'[p] = Empty' /\ staged'[p] = Everything(p)' /\ journal'.state = "none"
    BY <1>1, <1>3 DEF Empty, Everything
  <2>4. QED
    BY <1>5, <2>1, <2>2, <2>3 DEF RunInv, StagingInv, ReplacingInv, RollbackInv,
       PurposeInv, Replacing, Recovery, Reading, Rollback
<1>7. JournalInv' /\ Effective' = Effective
  BY <1>1, SameJournal, SameEffective DEF IInv, Act, Step
<1>8. QED
  BY <1>6, <1>7 DEF Kept

LEMMA WriteJournalKeeps ==
    ASSUME IInv, NEW p \in Processes, WriteJournal(p)
    PROVE  Kept(p)
<1>1. /\ at[p] = "journaling" /\ UNCHANGED <<tree, staged, backup, nextFile, present>>
      /\ journal' = [state |-> "prepared", owner |-> p, present |-> present[p]]
      /\ index' = [index EXCEPT ![p] = 1]
      /\ at' = [at EXCEPT ![p] = IF 1 \in present[p] THEN "moving" ELSE "placing"]
  BY NothingIsInTheWay DEF WriteJournal, StartEntry, GoTo, SetIndex
<1>2. /\ journal.state = "none" /\ staged[p] = Everything(p) /\ backup[p] = Empty
      /\ present[p] = {j \in Paths : tree[j] # Absent}
  BY <1>1 DEF IInv, RunInv, StagingInv
<1>3. /\ index'[p] = 1 /\ 1 \in Paths
      /\ at'[p] = IF 1 \in present[p] THEN "moving" ELSE "placing"
  BY <1>1, Numbers DEF IInv, SyncTypeOK, Source
<1>4. \A j \in Paths : backup[p][j] = Absent /\ staged[p][j] = p /\ p # Absent
  BY <1>2, Numbers DEF Empty, Everything
<1>5. \A j \in Paths : Waits(p, j)'
  BY <1>1, <1>2, <1>4 DEF Waits
<1>6. JournalInv'
  <2>1. at'[p] # "new" /\ ~nextFile
    BY <1>2, Moves DEF Act, Step, IInv, JournalInv
  <2>2. QED
    BY <1>1, <1>4, <2>1 DEF JournalInv, Pointing
<1>7. Effective' = Effective
  <2>1. Effective = tree
    BY <1>2, EffectiveIsTree DEF IInv
  <2>2. \A j \in Paths : Effective'[j] = tree[j]
    BY <1>1, <1>2, <1>4 DEF Effective
  <2>3. QED
    BY <2>1, <2>2 DEF Effective, IInv, SyncTypeOK
<1>8. RunInv(p)'
  <2>1. purpose'[p] = "failed" => p \in faulty'
    BY StepOutcome DEF Act, Step
  <2>2. nextFile' = FALSE
    BY <1>1, <1>2 DEF IInv, JournalInv, SyncTypeOK
  <2>3. \A j \in Paths : ~(j < 1)
    BY Numbers
  <2>4. ReplacingInv(p)'
    BY <1>1, <1>2, <1>3, <1>4, <1>5, <2>2, <2>3 DEF ReplacingInv, Replacing
  <2>5. QED
    BY <1>3, <2>1, <2>4 DEF RunInv, StagingInv, RollbackInv, PurposeInv, Recovery, Reading,
       Rollback
<1>9. QED
  BY <1>6, <1>7, <1>8 DEF Kept

LEMMA MoveToBackupKeeps ==
    ASSUME IInv, NEW p \in Processes, MoveToBackup(p)
    PROVE  Kept(p)
<1> DEFINE i == index[p]
<1>1. /\ at[p] = "moving" /\ tree[i] # Absent
      /\ backup' = [backup EXCEPT ![p][i] = tree[i]]
      /\ tree' = [tree EXCEPT ![i] = Absent]
      /\ at' = [at EXCEPT ![p] = "placing"]
      /\ UNCHANGED <<staged, journal, nextFile, index, present>>
  BY NothingIsInTheWay DEF MoveToBackup, GoTo, local
<1>2. /\ journal = [state |-> "prepared", owner |-> p, present |-> present[p]]
      /\ ~nextFile /\ Waits(p, i) /\ i \in present[p]
      /\ \A j \in Paths : j < i => tree[j] = p
      /\ \A j \in Paths : j > i => Waits(p, j)
  BY <1>1 DEF IInv, RunInv, ReplacingInv, Replacing
<1>3. /\ i \in Paths /\ at'[p] = "placing"
      /\ tree'[i] = Absent /\ backup'[p][i] = tree[i]
      /\ \A j \in Paths \ {i} : tree'[j] = tree[j] /\ backup'[p][j] = backup[p][j]
  BY <1>1 DEF IInv, SyncTypeOK
<1>4. JournalInv'
  <2>1. at'[p] # "new" /\ ~nextFile'
    BY <1>1, <1>2, <1>3
  <2>2. \A j \in Paths : backup'[p][j] # Absent => j \in journal.present
    BY <1>2, <1>3 DEF IInv, JournalInv
  <2>3. QED
    BY <1>1, <1>2, <2>1, <2>2 DEF JournalInv, Pointing
<1>5. Effective' = Effective
  <2>1. \A j \in Paths : Effective'[j] = Effective[j]
    BY <1>1, <1>2, <1>3 DEF Effective, Waits
  <2>2. QED
    BY <2>1 DEF Effective
<1>6. ReplacingInv(p)'
  <2>1. \A j \in Paths : j < i => tree'[j] = p
    BY <1>2, <1>3, Numbers
  <2>2. \A j \in Paths : j > i => Waits(p, j)'
    BY <1>1, <1>2, <1>3, Numbers DEF Waits
  <2>3. /\ tree'[i] = Absent /\ staged'[p][i] = p
        /\ backup'[p][i] # Absent <=> i \in present'[p]
    BY <1>1, <1>2, <1>3 DEF Waits
  <2>4. QED
    BY <1>1, <1>2, <1>3, <2>1, <2>2, <2>3 DEF ReplacingInv, Replacing
<1>7. RunInv(p)'
  <2>1. purpose'[p] = "failed" => p \in faulty'
    BY StepOutcome DEF Act, Step
  <2>2. QED
    BY <1>3, <1>6, <2>1 DEF RunInv, StagingInv, RollbackInv, PurposeInv, Recovery, Reading,
       Rollback
<1>8. QED
  BY <1>4, <1>5, <1>7 DEF Kept

LEMMA PlaceStagedKeeps ==
    ASSUME IInv, NEW p \in Processes, PlaceStaged(p)
    PROVE  Kept(p)
<1> DEFINE i == index[p]
<1>1. /\ at[p] = "placing" /\ staged[p][i] # Absent
      /\ tree' = [tree EXCEPT ![i] = staged[p][i]]
      /\ staged' = [staged EXCEPT ![p][i] = Absent]
      /\ IF i < Entries
         THEN /\ index' = [index EXCEPT ![p] = i + 1]
              /\ at' = [at EXCEPT ![p] = IF i + 1 \in present[p] THEN "moving" ELSE "placing"]
         ELSE at' = [at EXCEPT ![p] = "writingNext"] /\ UNCHANGED index
      /\ UNCHANGED <<backup, journal, nextFile, present>>
  BY NothingIsInTheWay DEF PlaceStaged, StartEntry, GoTo, SetIndex
<1>2. /\ journal = [state |-> "prepared", owner |-> p, present |-> present[p]]
      /\ ~nextFile /\ tree[i] = Absent /\ staged[p][i] = p
      /\ backup[p][i] # Absent <=> i \in present[p]
      /\ \A j \in Paths : j < i => tree[j] = p
      /\ \A j \in Paths : j > i => Waits(p, j)
  BY <1>1 DEF IInv, RunInv, ReplacingInv, Replacing
<1>3. /\ i \in Paths
      /\ tree'[i] = p /\ staged'[p][i] = Absent
      /\ \A j \in Paths \ {i} : tree'[j] = tree[j] /\ staged'[p][j] = staged[p][j]
  BY <1>1, <1>2 DEF IInv, SyncTypeOK
<1>4. JournalInv'
  BY <1>1, SameJournal DEF Act, Step
<1>5. Effective' = Effective
  <2>1. \A j \in Paths : Effective'[j] = Effective[j]
    BY <1>1, <1>2, <1>3, Numbers DEF Effective
  <2>2. QED
    BY <2>1 DEF Effective
<1>6. /\ \A j \in Paths : j < i + 1 => tree'[j] = p
      /\ \A j \in Paths : j > i => Waits(p, j)'
  <2>1. \A j \in Paths : j < i + 1 => tree'[j] = p
    BY <1>2, <1>3, Numbers
  <2>2. \A j \in Paths : j > i => Waits(p, j)'
    BY <1>1, <1>2, <1>3, Numbers DEF Waits
  <2>3. QED
    BY <2>1, <2>2
<1>7. ReplacingInv(p)'
  <2>1. CASE i < Entries
    <3>1. /\ index'[p] = i + 1 /\ i + 1 \in Paths
          /\ at'[p] = IF i + 1 \in present[p] THEN "moving" ELSE "placing"
      BY <1>1, <1>3, <2>1, Numbers DEF IInv, SyncTypeOK, Paths
    <3>2. \A j \in Paths : j > index'[p] => Waits(p, j)'
      BY <1>3, <1>6, <3>1, Numbers
    <3>3. Waits(p, index[p])'
      BY <1>3, <1>6, <3>1, Numbers
    <3>4. at'[p] = "placing" =>
             /\ tree'[index'[p]] = Absent /\ staged'[p][index'[p]] = p
             /\ backup'[p][index'[p]] # Absent <=> index'[p] \in present'[p]
      BY <1>1, <3>1, <3>3 DEF Waits
    <3>5. \A j \in Paths : j < index'[p] => tree'[j] = p
      BY <1>6, <3>1
    <3>6. at'[p] = "moving" => index'[p] \in present'[p]
      BY <1>1, <3>1
    <3>7. at'[p] \in {"moving", "placing"} /\ ~nextFile' /\ journal' = journal
           /\ present' = present
      BY <1>1, <1>2, <3>1
    <3>8. QED
      BY <1>2, <3>2, <3>3, <3>4, <3>5, <3>6, <3>7 DEF ReplacingInv, Replacing
  <2>2. CASE i = Entries
    <3>1. at'[p] = "writingNext"
      BY <1>1, <2>2, Numbers DEF IInv, SyncTypeOK
    <3>2. \A j \in Paths : tree'[j] = p
      BY <1>6, <2>2, Numbers
    <3>3. tree' = Everything(p)
      BY <1>1, <3>2 DEF Everything, IInv, SyncTypeOK
    <3>4. Everything(p)' = Everything(p)
      BY DEF Everything
    <3>5. QED
      BY <1>1, <1>2, <3>1, <3>3, <3>4 DEF ReplacingInv, Replacing
  <2>3. QED
    BY <1>3, <2>1, <2>2, Numbers
<1>8. RunInv(p)'
  <2>1. purpose'[p] = "failed" => p \in faulty'
    BY StepOutcome DEF Act, Step
  <2>2. at'[p] \in {"moving", "placing", "writingNext"}
    BY <1>1 DEF IInv, SyncTypeOK
  <2>3. QED
    BY <1>7, <2>1, <2>2 DEF RunInv, StagingInv, RollbackInv, PurposeInv, Recovery, Reading,
       Rollback
<1>9. QED
  BY <1>4, <1>5, <1>8 DEF Kept

LEMMA WriteNextKeeps ==
    ASSUME IInv, NEW p \in Processes, WriteNext(p)
    PROVE  Kept(p)
<1>1. /\ at[p] = "writingNext" /\ nextFile'
      /\ at' = [at EXCEPT ![p] = "committing"]
      /\ UNCHANGED <<tree, staged, backup, journal, present>>
  BY NothingIsInTheWay DEF WriteNext, GoTo, local
<1>2. /\ journal = [state |-> "prepared", owner |-> p, present |-> present[p]]
      /\ tree = Everything(p)
  BY <1>1 DEF IInv, RunInv, ReplacingInv, Replacing
<1>3. at'[p] = "committing"
  BY <1>1 DEF IInv, SyncTypeOK
<1>4. JournalInv'
  BY <1>1, <1>2, <1>3 DEF IInv, JournalInv, Pointing
<1>5. Effective' = Effective
  BY <1>1, SameEffective DEF IInv
<1>6. RunInv(p)'
  <2>1. purpose'[p] = "failed" => p \in faulty'
    BY StepOutcome DEF Act, Step
  <2>2. Everything(p)' = Everything(p)
    BY DEF Everything
  <2>3. ReplacingInv(p)'
    BY <1>1, <1>2, <1>3, <2>2 DEF ReplacingInv, Replacing
  <2>4. QED
    BY <1>3, <2>1, <2>3 DEF RunInv, StagingInv, RollbackInv, PurposeInv, Recovery, Reading,
       Rollback
<1>7. QED
  BY <1>4, <1>5, <1>6 DEF Kept

LEMMA CommitJournalKeeps ==
    ASSUME IInv, NEW p \in Processes, CommitJournal(p)
    PROVE  Kept(p)
<1>1. /\ at[p] = "committing" /\ nextFile' = FALSE
      /\ journal' = [state |-> "committed", owner |-> p, present |-> present[p]]
      /\ at' = [at EXCEPT ![p] = "recovering"]
      /\ purpose' = [purpose EXCEPT ![p] = "finish"]
      /\ UNCHANGED tree
  BY NothingIsInTheWay DEF CommitJournal, GoTo
<1>2. at'[p] = "recovering" /\ purpose'[p] = "finish"
  BY <1>1 DEF IInv, SyncTypeOK
<1>3. tree = Everything(p)
  BY <1>1 DEF IInv, RunInv, ReplacingInv
<1>4. Effective' \in Snapshots
  <2>1. Effective' = tree
    BY <1>1 DEF Effective, IInv, SyncTypeOK
  <2>2. QED
    BY <1>3, <2>1 DEF Snapshots
<1>5. JournalInv'
  BY <1>1, <1>2 DEF JournalInv, Pointing
<1>6. RunInv(p)'
  BY <1>2, EndedInv
<1>7. QED
  BY <1>4, <1>5, <1>6 DEF Kept

(* A run that rolls back what another has left does not touch its own.     *)
LEMMA StaleStays ==
    ASSUME IInv, NEW p \in Processes, at[p] \in Reading,
           UNCHANGED <<journal, reads, present, purpose, staged>>,
           journal.owner # p => backup'[p] = backup[p]
    PROVE  purpose'[p] \in {"stale", "failed", "finish"}
           /\ (purpose'[p] = "stale" => Untouched(p)')
<1>1. purpose[p] \in {"stale", "failed", "finish"} /\ (purpose[p] = "stale" => Untouched(p))
  BY DEF IInv, RunInv, PurposeInv, Recovery
<1>2. CASE purpose[p] = "stale"
  <2>1. staged[p] = Empty /\ backup[p] = Empty /\ present[p] = {} /\ (Pointing => journal.owner # p)
    BY <1>1, <1>2 DEF Untouched
  <2>2. journal.owner # p
    BY <2>1, ReadsJournal
  <2>3. QED
    BY <1>1, <1>2, <2>1, <2>2 DEF Untouched, Pointing, Empty, Everything
<1>3. QED
  BY <1>1, <1>2

(* When all the entries from the one at hand on are as they were, the next *)
(* is looked at, or the journal is done with.                              *)
LEMMA RollbackGoesOn ==
    ASSUME IInv, NEW p \in Processes, Act(p), at[p] \in Rollback, NextEntry(p),
           UNCHANGED <<journal, reads, present, purpose, staged>>,
           journal.owner # p => backup'[p] = backup[p],
           tree' \in [Paths -> Contents],
           \A j \in Paths : j >= index[p] => tree'[j] = Effective'[j]
    PROVE  RunInv(p)'
<1>1. reads'[p] = journal' /\ Pointing' /\ journal'.state = "prepared"
  BY ReadsJournal DEF Reading, Pointing, IInv, RunInv, RollbackInv
<1>2. purpose'[p] \in {"stale", "failed", "finish"} /\ (purpose'[p] = "stale" => Untouched(p)')
  BY StaleStays DEF Reading
<1>3. purpose'[p] = "failed" => p \in faulty'
  BY StepOutcome
<1>4. index[p] \in Paths
  BY DEF IInv, SyncTypeOK
<1>5. CASE index[p] > 1
  <2>1. index'[p] = index[p] - 1 /\ at'[p] = "checking"
    BY <1>5 DEF NextEntry, SetIndex, GoTo, IInv, SyncTypeOK
  <2>2. \A j \in Paths : j > index'[p] => tree'[j] = Effective'[j]
    BY <1>4, <2>1, Numbers
  <2>3. QED
    BY <1>1, <1>2, <1>3, <2>1, <2>2 DEF RunInv, StagingInv, ReplacingInv, RollbackInv,
       PurposeInv, Replacing, Recovery, Reading, Rollback
<1>6. CASE index[p] = 1
  <2>1. at'[p] = "removingNext"
    BY <1>6 DEF NextEntry, GoTo, IInv, SyncTypeOK
  <2>2. \A j \in Paths : tree'[j] = Effective'[j]
    BY <1>6, Numbers
  <2>3. tree' = Effective'
    BY <2>2 DEF Effective
  <2>4. QED
    BY <1>1, <1>2, <1>3, <2>1, <2>3 DEF RunInv, StagingInv, ReplacingInv, RollbackInv,
       PurposeInv, Replacing, Recovery, Reading, Rollback
<1>7. QED
  BY <1>4, <1>5, <1>6, Numbers

LEMMA CheckEntryKeeps ==
    ASSUME IInv, NEW p \in Processes, CheckEntry(p)
    PROVE  Kept(p)
<1> DEFINE q == reads[p].owner
           i == index[p]
<1>1. at[p] = "checking" /\ UNCHANGED <<tree, staged, backup, journal, nextFile>>
       /\ UNCHANGED <<present, reads, purpose>>
  BY DEF CheckEntry, files
<1>2. reads[p] = journal /\ Pointing /\ journal.state = "prepared" /\ i \in Paths
       /\ \A j \in Paths : j > i => tree[j] = Effective[j]
  BY <1>1, ReadsJournal DEF Reading, Rollback, IInv, RunInv, RollbackInv, SyncTypeOK
<1>3. JournalInv' /\ Effective' = Effective
  BY <1>1, SameJournal, SameEffective DEF IInv, Act, Step
<1>4. purpose'[p] \in {"stale", "failed", "finish"} /\ (purpose'[p] = "stale" => Untouched(p)')
  BY <1>1, StaleStays DEF Reading, Rollback
<1>5. purpose'[p] = "failed" => p \in faulty'
  BY StepOutcome DEF Act, Step
<1>6. CASE backup[q][i] # Absent /\ GoTo(p, "removing") /\ UNCHANGED index
  <2>1. at'[p] = "removing"
    BY <1>6 DEF GoTo, IInv, SyncTypeOK
  <2>2. RunInv(p)'
    BY <1>1, <1>2, <1>3, <1>4, <1>5, <1>6, <2>1 DEF RunInv, StagingInv, ReplacingInv,
       RollbackInv, PurposeInv, Replacing, Recovery, Reading, Rollback, Pointing
  <2>3. QED
    BY <1>3, <2>2 DEF Kept
<1>7. CASE /\ backup[q][i] = Absent /\ i \notin reads[p].present /\ staged[q][i] = Absent
           /\ GoTo(p, "dropping") /\ UNCHANGED index
  <2>1. at'[p] = "dropping"
    BY <1>7 DEF GoTo, IInv, SyncTypeOK
  <2>2. RunInv(p)'
    BY <1>1, <1>2, <1>3, <1>4, <1>5, <1>7, <2>1 DEF RunInv, StagingInv, ReplacingInv,
       RollbackInv, PurposeInv, Replacing, Recovery, Reading, Rollback, Pointing
  <2>3. QED
    BY <1>3, <2>2 DEF Kept
<1>8. CASE /\ backup[q][i] = Absent /\ (i \in reads[p].present \/ staged[q][i] # Absent)
           /\ NextEntry(p)
  <2>1. tree[i] = Effective[i]
    BY <1>2, <1>8 DEF Effective
  <2>2. \A j \in Paths : j >= i => tree'[j] = Effective'[j]
    BY <1>1, <1>2, <1>3, <2>1, Numbers
  <2>3. tree' \in [Paths -> Contents]
    BY <1>1 DEF IInv, SyncTypeOK
  <2>4. RunInv(p)'
    BY <1>1, <1>8, <2>2, <2>3, RollbackGoesOn DEF Act, Step, Rollback
  <2>5. QED
    BY <1>3, <2>4 DEF Kept
<1>9. QED
  BY <1>6, <1>7, <1>8 DEF CheckEntry

(* A target that has a backup, or is to go, does not count.                *)
LEMMA TargetRemoved ==
    ASSUME IInv, NEW p \in Processes, NEW c \in Contents, at[p] \in {"removing", "dropping"},
           tree' = [tree EXCEPT ![index[p]] = c], UNCHANGED <<staged, backup, journal>>
    PROVE  /\ Effective' = Effective
           /\ at[p] = "dropping" => Effective[index[p]] = Absent
<1>1. reads[p] = journal /\ journal.state = "prepared" /\ index[p] \in Paths
  BY ReadsJournal DEF Reading, Rollback, IInv, RunInv, RollbackInv, SyncTypeOK
<1>2. \/ backup[journal.owner][index[p]] # Absent
      \/ /\ backup[journal.owner][index[p]] = Absent
         /\ index[p] \notin journal.present /\ staged[journal.owner][index[p]] = Absent
  BY DEF IInv, RunInv, RollbackInv
<1>3. \A j \in Paths \ {index[p]} : tree'[j] = tree[j]
  BY DEF IInv, SyncTypeOK
<1>4. \A j \in Paths : Effective'[j] = Effective[j]
  BY <1>1, <1>2, <1>3 DEF Effective
<1>5. at[p] = "dropping" => Effective[index[p]] = Absent
  BY <1>1 DEF Effective, IInv, RunInv, RollbackInv
<1>6. QED
  BY <1>4, <1>5 DEF Effective

LEMMA RemoveTargetKeeps ==
    ASSUME IInv, NEW p \in Processes, RemoveTarget(p)
    PROVE  Kept(p)
<1>1. /\ at[p] = "removing" /\ tree' = [tree EXCEPT ![index[p]] = Absent]
      /\ at' = [at EXCEPT ![p] = "restoring"]
      /\ UNCHANGED <<staged, backup, journal, nextFile, index, present, reads, purpose>>
  BY DEF RemoveTarget, GoTo, local
<1>2. /\ reads[p] = journal /\ Pointing /\ journal.state = "prepared" /\ index[p] \in Paths
      /\ backup[journal.owner][index[p]] # Absent
      /\ \A j \in Paths : j > index[p] => tree[j] = Effective[j]
  BY <1>1, ReadsJournal DEF Reading, Rollback, IInv, RunInv, RollbackInv, SyncTypeOK
<1>3. Effective' = Effective
  BY <1>1, TargetRemoved, Numbers
<1>4. /\ at'[p] = "restoring" /\ tree'[index[p]] = Absent
      /\ \A j \in Paths : j > index[p] => tree'[j] = tree[j]
  BY <1>1, Numbers DEF IInv, SyncTypeOK
<1>5. JournalInv'
  BY <1>1, SameJournal DEF Act, Step
<1>6. purpose'[p] \in {"stale", "failed", "finish"} /\ (purpose'[p] = "stale" => Untouched(p)')
  BY <1>1, StaleStays DEF Reading, Rollback
<1>7. purpose'[p] = "failed" => p \in faulty'
  BY StepOutcome DEF Act, Step
<1>8. RollbackInv(p)'
  BY <1>1, <1>2, <1>3, <1>4 DEF RollbackInv, Reading, Rollback, Pointing
<1>9. RunInv(p)'
  BY <1>4, <1>6, <1>7, <1>8 DEF RunInv, StagingInv, ReplacingInv, PurposeInv, Replacing,
     Recovery, Reading, Rollback
<1>10. QED
  BY <1>3, <1>5, <1>9 DEF Kept

LEMMA RestoreBackupKeeps ==
    ASSUME IInv, NEW p \in Processes, RestoreBackup(p)
    PROVE  Kept(p)
<1> DEFINE q == journal.owner
           i == index[p]
<1>1. /\ at[p] = "restoring" /\ reads[p] = journal /\ journal.state = "prepared" /\ Pointing
      /\ q \in Processes /\ i \in Paths
      /\ backup[q][i] # Absent /\ tree[i] = Absent
      /\ \A j \in Paths : j > i => tree[j] = Effective[j]
  BY ReadsJournal, NothingIsInTheWay DEF RestoreBackup, Reading, Rollback, IInv, RunInv,
     RollbackInv, SyncTypeOK
<1>2. /\ tree' = [tree EXCEPT ![i] = backup[q][i]]
      /\ backup' = [backup EXCEPT ![q][i] = Absent]
      /\ NextEntry(p)
      /\ UNCHANGED <<staged, journal, nextFile, present, reads, purpose>>
  BY <1>1 DEF RestoreBackup
<1>3. /\ tree'[i] = backup[q][i] /\ backup'[q][i] = Absent
      /\ \A j \in Paths \ {i} : tree'[j] = tree[j] /\ backup'[q][j] = backup[q][j]
      /\ q # p => backup'[p] = backup[p]
  BY <1>1, <1>2 DEF IInv, SyncTypeOK
<1>4. i \in journal.present
  BY <1>1 DEF IInv, JournalInv
<1>5. Effective' = Effective
  <2>1. \A j \in Paths : Effective'[j] = Effective[j]
    BY <1>1, <1>2, <1>3, <1>4 DEF Effective
  <2>2. QED
    BY <2>1 DEF Effective
<1>6. \A j \in Paths : j >= i => tree'[j] = Effective'[j]
  <2>1. Effective[i] = backup[q][i]
    BY <1>1 DEF Effective
  <2>2. QED
    BY <1>1, <1>3, <1>5, <2>1, Numbers
<1>7. RunInv(p)'
  <2>1. tree' \in [Paths -> Contents]
    BY StepTree DEF Step
  <2>2. QED
    BY <1>1, <1>2, <1>3, <1>6, <2>1, RollbackGoesOn DEF Act, Step, Rollback
<1>8. JournalInv'
  <2>1. at'[q] # "new"
    BY <1>1, Moves DEF Act, Step, IInv, JournalInv
  <2>2. \A j \in Paths : backup'[q][j] # Absent => j \in journal.present
    BY <1>1, <1>3 DEF IInv, JournalInv
  <2>3. QED
    BY <1>1, <1>2, <2>1, <2>2 DEF JournalInv, Pointing
<1>9. QED
  BY <1>5, <1>7, <1>8 DEF Kept

LEMMA DropTargetKeeps ==
    ASSUME IInv, NEW p \in Processes, DropTarget(p)
    PROVE  Kept(p)
<1>1. /\ at[p] = "dropping" /\ tree' = [tree EXCEPT ![index[p]] = Absent]
      /\ NextEntry(p)
      /\ UNCHANGED <<staged, backup, journal, nextFile, present, reads, purpose>>
  BY DEF DropTarget
<1>2. index[p] \in Paths /\ \A j \in Paths : j > index[p] => tree[j] = Effective[j]
  BY <1>1 DEF Reading, Rollback, IInv, RunInv, RollbackInv, SyncTypeOK
<1>3. Effective' = Effective /\ Effective[index[p]] = Absent
  BY <1>1, TargetRemoved, Numbers
<1>4. tree'[index[p]] = Absent /\ \A j \in Paths \ {index[p]} : tree'[j] = tree[j]
  BY <1>1 DEF IInv, SyncTypeOK
<1>5. \A j \in Paths : j >= index[p] => tree'[j] = Effective'[j]
  BY <1>2, <1>3, <1>4, Numbers
<1>6. RunInv(p)'
  <2>1. tree' \in [Paths -> Contents]
    BY StepTree DEF Step
  <2>2. QED
    BY <1>1, <1>5, <2>1, RollbackGoesOn DEF Act, Step, Rollback
<1>7. JournalInv'
  BY <1>1, SameJournal DEF Act, Step
<1>8. QED
  BY <1>3, <1>6, <1>7 DEF Kept

LEMMA RemoveNextKeeps ==
    ASSUME IInv, NEW p \in Processes, RemoveNext(p)
    PROVE  Kept(p)
<1>1. /\ at[p] = "removingNext" /\ nextFile' = FALSE
      /\ at' = [at EXCEPT ![p] = "removingJournal"]
      /\ UNCHANGED <<tree, staged, backup, journal, present, reads, purpose>>
  BY DEF RemoveNext, GoTo, local
<1>2. reads[p] = journal /\ Pointing /\ tree = Effective
  BY <1>1, ReadsJournal DEF Reading, IInv, RunInv, RollbackInv
<1>3. Effective' = Effective
  BY <1>1, SameEffective DEF IInv
<1>4. at'[p] = "removingJournal"
  BY <1>1 DEF IInv, SyncTypeOK
<1>5. JournalInv'
  BY <1>1, Moves DEF Act, Step, IInv, JournalInv, Pointing
<1>6. purpose'[p] \in {"stale", "failed", "finish"} /\ (purpose'[p] = "stale" => Untouched(p)')
  BY <1>1, StaleStays DEF Reading
<1>7. purpose'[p] = "failed" => p \in faulty'
  BY StepOutcome DEF Act, Step
<1>8. RunInv(p)'
  BY <1>1, <1>2, <1>3, <1>4, <1>6, <1>7 DEF RunInv, StagingInv, ReplacingInv, RollbackInv,
     PurposeInv, Replacing, Recovery, Reading, Rollback, Pointing
<1>9. QED
  BY <1>3, <1>5, <1>8 DEF Kept

LEMMA RemoveJournalKeeps ==
    ASSUME IInv, NEW p \in Processes, RemoveJournal(p)
    PROVE  Kept(p)
<1>1. /\ at[p] = "removingJournal" /\ journal' = NoJournal
      /\ at' = [at EXCEPT ![p] = "disposing"]
      /\ UNCHANGED <<tree, staged, backup, nextFile, present, reads, purpose>>
  BY NothingIsInTheWay DEF RemoveJournal, GoTo, local
<1>2. tree = Effective /\ ~nextFile
  BY <1>1 DEF Reading, IInv, RunInv, RollbackInv
<1>3. journal'.state = "none" /\ at'[p] = "disposing"
  BY <1>1 DEF NoJournal, IInv, SyncTypeOK
<1>4. Effective' = Effective
  <2>1. Effective' = tree
    BY <1>1, <1>3 DEF Effective, IInv, SyncTypeOK
  <2>2. QED
    BY <1>2, <2>1
<1>5. JournalInv'
  BY <1>1, <1>2, <1>3 DEF JournalInv, Pointing
<1>6. purpose[p] \in {"stale", "failed", "finish"} /\ (purpose[p] = "stale" => Untouched(p))
  BY <1>1 DEF IInv, RunInv, PurposeInv, Recovery, Reading
<1>7. purpose[p] = "stale" => Untouched(p)'
  BY <1>1, <1>3, <1>6 DEF Untouched, Pointing, Empty, Everything
<1>8. purpose'[p] = "failed" => p \in faulty'
  BY StepOutcome DEF Act, Step
<1>9. RunInv(p)'
  BY <1>1, <1>3, <1>6, <1>7, <1>8 DEF RunInv, StagingInv, ReplacingInv, RollbackInv,
     PurposeInv, Replacing, Recovery, Reading, Rollback
<1>10. QED
  BY <1>4, <1>5, <1>9 DEF Kept

LEMMA DisposeKeeps ==
    ASSUME IInv, NEW p \in Processes, Dispose(p)
    PROVE  Kept(p)
<1>1. /\ at[p] = "disposing" /\ UNCHANGED <<tree, journal, nextFile, present, purpose>>
      /\ staged' = [staged EXCEPT ![reads[p].owner] = Empty]
      /\ backup' = [backup EXCEPT ![reads[p].owner] = Empty]
  BY DEF Dispose, Clear, local
<1>2. journal.state = "none" /\ purpose[p] \in {"stale", "failed", "finish"}
       /\ (purpose[p] = "stale" => Untouched(p))
  BY <1>1 DEF IInv, RunInv, StagingInv, PurposeInv, Recovery
<1>3. Effective' = Effective
  BY <1>1, <1>2, SameEffective DEF IInv
<1>4. JournalInv'
  BY <1>1, <1>2 DEF IInv, JournalInv, Pointing
<1>5. purpose'[p] = "failed" => p \in faulty'
  BY StepOutcome DEF Act, Step
<1>6. CASE purpose[p] = "stale"
  <2>1. at'[p] = "staging"
    BY <1>6 DEF Dispose, GoTo, IInv, SyncTypeOK
  <2>2. staged'[p] \in {staged[p], Empty} /\ backup'[p] \in {backup[p], Empty}
    BY <1>1 DEF IInv, SyncTypeOK
  <2>3. Untouched(p)'
    BY <1>1, <1>2, <1>6, <2>2 DEF Untouched, Pointing, Empty, Everything
  <2>4. RunInv(p)'
    BY <1>1, <1>2, <1>5, <2>1, <2>3 DEF RunInv, StagingInv, ReplacingInv, RollbackInv,
       PurposeInv, Replacing, Recovery, Reading, Rollback
  <2>5. QED
    BY <1>3, <1>4, <2>4 DEF Kept
<1>7. CASE purpose[p] # "stale"
  <2>1. at'[p] = "cleaning"
    BY <1>7 DEF Dispose, GoTo, IInv, SyncTypeOK
  <2>2. QED
    BY <1>3, <1>4, <1>5, <2>1, EndedInv DEF Kept
<1>8. QED
  BY <1>6, <1>7

LEMMA CleanUpKeeps ==
    ASSUME IInv, NEW p \in Processes, CleanUp(p)
    PROVE  Kept(p)
<1>1. /\ at[p] = "cleaning" /\ at' = [at EXCEPT ![p] = "gone"]
      /\ UNCHANGED <<tree, journal, nextFile>>
      /\ \/ UNCHANGED <<staged, backup>>
         \/ /\ journal.state = "none" \/ (journal.state # "torn" /\ journal.owner # p)
            /\ staged' = [staged EXCEPT ![p] = Empty]
            /\ backup' = [backup EXCEPT ![p] = Empty]
  BY DEF CleanUp, Clear, GoTo, local
<1>2. at'[p] = "gone"
  BY <1>1 DEF IInv, SyncTypeOK
<1>3. /\ Pointing => /\ staged'[journal.owner] = staged[journal.owner]
                     /\ backup'[journal.owner] = backup[journal.owner]
  BY <1>1 DEF Pointing, IInv, JournalInv, SyncTypeOK
<1>4. Effective' = Effective
  <2>1. \A j \in Paths : Effective'[j] = Effective[j]
    BY <1>1, <1>3 DEF Effective, Pointing
  <2>2. QED
    BY <2>1 DEF Effective
<1>5. JournalInv'
  BY <1>1, <1>3, Moves DEF Act, Step, IInv, JournalInv, Pointing
<1>6. RunInv(p)'
  BY <1>2, StepOutcome, EndedInv DEF Act, Step
<1>7. QED
  BY <1>4, <1>5, <1>6 DEF Kept

-----------------------------------------------------------------------------
(* An operation that is cut short.                                         *)
LEMMA CutShort ==
    ASSUME IInv, NEW p \in Processes, Fails(p) \/ Killed(p)
    PROVE  /\ Kept(p)
           /\ tree' \in [Paths -> Contents] /\ journal' \in Journals /\ nextFile' \in BOOLEAN
           /\ UNCHANGED <<staged, backup>>
<1>1. Interrupted(p) /\ UNCHANGED <<staged, backup>>
  BY DEF Fails, Killed, Interrupted
<1>2. /\ tree \in [Paths -> Contents] /\ journal \in Journals /\ nextFile \in BOOLEAN
      /\ at \in [Processes -> Places]
  BY DEF IInv, SyncTypeOK
<1>3. /\ tree' \in [Paths -> Contents] /\ nextFile' \in BOOLEAN
  BY <1>1, <1>2, Numbers DEF Interrupted
<1>4. journal' \in Journals
  BY <1>1, <1>2, JournalsAreTyped DEF Interrupted
<1>5. RunInv(p)'
  <2>1. \/ at'[p] \in {"cleaning", "gone"}
        \/ at'[p] = "recovering" /\ purpose'[p] \in {"failed", "finish"}
    <3>1. purpose \in [Processes -> {"none", "stale", "failed", "finish"}]
      BY DEF IInv, SyncTypeOK
    <3>2. QED
      BY <1>2, <3>1 DEF Fails, Killed, Throw, GoTo
  <2>2. QED
    BY <2>1, StepOutcome, EndedInv DEF Act
<1>6. CASE tree' # tree
  <2>1. /\ at[p] \in {"removing", "dropping"} /\ index[p] = Source
        /\ tree' = [tree EXCEPT ![index[p]] = Broken]
        /\ UNCHANGED <<journal, nextFile>>
    BY <1>1, <1>6 DEF Interrupted
  <2>2. Effective' = Effective
    BY <1>1, <2>1, TargetRemoved, Numbers
  <2>3. JournalInv'
    BY <1>1, <2>1, SameJournal DEF Act
  <2>4. QED
    BY <1>1, <1>3, <1>4, <1>5, <2>2, <2>3 DEF Kept
<1>7. CASE journal' # journal
  <2>1. /\ at[p] = "journaling" /\ journal.state = "none" /\ journal'.state = "torn"
        /\ UNCHANGED <<tree, nextFile>>
    BY <1>1, <1>7 DEF Interrupted
  <2>2. Effective' = Effective
    BY <2>1, SameEffective DEF IInv
  <2>3. JournalInv'
    BY <2>1 DEF IInv, JournalInv, Pointing
  <2>4. QED
    BY <1>1, <1>3, <1>4, <1>5, <2>2, <2>3 DEF Kept
<1>8. CASE UNCHANGED <<tree, journal>>
  <2>1. Effective' = Effective
    BY <1>1, <1>8, SameEffective DEF IInv
  <2>2. nextFile' => journal.state = "prepared"
    <3>1. nextFile => journal.state = "prepared"
      BY DEF IInv, JournalInv
    <3>2. at[p] = "writingNext" => journal.state = "prepared"
      <4>1. RunInv(p)
        BY DEF IInv
      <4>2. QED
        BY <4>1 DEF RunInv, ReplacingInv, Replacing
    <3>3. QED
      BY <1>1, <3>1, <3>2 DEF Interrupted
  <2>3. JournalInv'
    BY <1>1, <1>8, <2>2, Moves DEF Act, IInv, JournalInv, Pointing
  <2>4. QED
    BY <1>1, <1>3, <1>4, <1>5, <2>1, <2>3 DEF Kept
<1>9. QED
  BY <1>6, <1>7, <1>8

LEMMA ActKeeps ==
    ASSUME IInv, NEW p \in Processes, Act(p)
    PROVE  Kept(p)
BY BeginKeeps, ReadJournalKeeps, StageKeeps, ScanKeeps, WriteJournalKeeps, MoveToBackupKeeps,
   PlaceStagedKeeps, WriteNextKeeps, CommitJournalKeeps, CheckEntryKeeps, RemoveTargetKeeps,
   RestoreBackupKeeps, DropTargetKeeps, RemoveNextKeeps, RemoveJournalKeeps, DisposeKeeps,
   CleanUpKeeps, CutShort DEF Act, Step

LEMMA ActTypes ==
    ASSUME IInv, NEW p \in Processes, Act(p)
    PROVE  SyncTypeOK'
<1>1. /\ tree' \in [Paths -> Contents]
      /\ staged' \in [Processes -> [Paths -> Contents]]
      /\ backup' \in [Processes -> [Paths -> Contents]]
      /\ journal' \in Journals /\ nextFile' \in BOOLEAN
  <2>1. CASE Step(p)
    BY <2>1, StepTree, StepStaged, StepBackup, StepJournal
  <2>2. CASE Fails(p) \/ Killed(p)
    BY <2>2, CutShort DEF IInv, SyncTypeOK
  <2>3. QED
    BY <2>1, <2>2 DEF Act
<1>2. QED
  BY <1>1, Moves, StepLocal, StepOutcome DEF SyncTypeOK

-----------------------------------------------------------------------------
LEMMA InitInv == Init => IInv
<1> SUFFICES ASSUME Init PROVE IInv
  OBVIOUS
<1>1. SyncTypeOK
  <2>1. tree \in [Paths -> Contents]
    BY TreesAreTyped DEF Init
  <2>2. /\ staged \in [Processes -> [Paths -> Contents]]
        /\ backup \in [Processes -> [Paths -> Contents]]
    BY TreesAreTyped DEF Init
  <2>3. journal \in Journals /\ reads \in [Processes -> Journals] /\ nextFile \in BOOLEAN
    BY JournalsAreTyped DEF Init
  <2>4. at \in [Processes -> Places] /\ index \in [Processes -> Paths]
    BY Numbers DEF Init, Places, Source
  <2>5. /\ present \in [Processes -> SUBSET Paths]
        /\ purpose \in [Processes -> {"none", "stale", "failed", "finish"}]
        /\ outcome \in [Processes -> {"none", "ok", "failed", "killed"}]
        /\ faulty \subseteq Processes
    BY DEF Init
  <2>6. faults \in 0 .. MaxFaults
    BY SyncAssumption DEF Init
  <2>7. QED
    BY <2>1, <2>2, <2>3, <2>4, <2>5, <2>6 DEF SyncTypeOK
<1>2. journal.state = "none" /\ ~nextFile /\ \A p \in Processes : at[p] = "new"
  BY DEF Init, NoJournal
<1>3. Alone /\ JournalInv
  BY <1>2 DEF Alone, Alive, JournalInv, Pointing
<1>4. Installed
  BY <1>1, <1>2, EffectiveIsTree DEF Init, Installed
<1>5. LeftoversAreHarmless
  BY DEF Init, LeftoversAreHarmless
<1>6. \A p \in Processes : RunInv(p)
  BY <1>2 DEF Init, RunInv, StagingInv, ReplacingInv, RollbackInv, PurposeInv, Untouched,
     Pointing, Replacing, Recovery, Reading, Rollback
<1>7. QED
  BY <1>1, <1>3, <1>4, <1>5, <1>6 DEF IInv

LEMMA NextInv ==
    ASSUME MaxRunning <= 1, IInv, [Next]_vars
    PROVE  IInv' /\ Effective' \in Snapshots \cup {Effective}
<1>1. ASSUME NEW p \in Processes, Act(p)
      PROVE  IInv' /\ Effective' \in Snapshots \cup {Effective}
  <2>1. SyncTypeOK'
    BY <1>1, ActTypes
  <2>2. Alone' /\ \A q \in Processes \ {p} : RunInv(q)'
    BY <1>1, OthersRest
  <2>3. JournalInv' /\ RunInv(p)' /\ Effective' \in Snapshots \cup {Effective}
    BY <1>1, ActKeeps DEF Kept
  <2>4. Installed'
    <3>1. Snapshots' = Snapshots /\ Originals' = Originals
      BY DEF Snapshots, Originals, Everything
    <3>2. QED
      BY <2>3, <3>1 DEF IInv, Installed
  <2>5. LeftoversAreHarmless'
    BY <1>1, StepOutcome DEF IInv, LeftoversAreHarmless
  <2>6. QED
    BY <2>1, <2>2, <2>3, <2>4, <2>5 DEF IInv
<1>2. CASE UNCHANGED vars
  <2>1. Effective' = Effective
    BY <1>2 DEF vars, files, Effective
  <2>2. SyncTypeOK'
    BY <1>2 DEF IInv, SyncTypeOK, vars, files, local
  <2>3. Alone' /\ JournalInv' /\ LeftoversAreHarmless' /\ Installed'
    BY <1>2, <2>1 DEF IInv, Alone, Alive, JournalInv, Pointing, LeftoversAreHarmless,
       Installed, vars, files
  <2>4. ASSUME NEW p \in Processes PROVE RunInv(p)'
    <3>1. RunInv(p)
      BY DEF IInv
    <3>2. UNCHANGED <<tree, staged, backup, journal, nextFile, at, index, present, reads,
                      purpose, faulty, Effective>>
      BY <1>2, <2>1 DEF vars, files, local
    <3>3. StagingInv(p)' /\ ReplacingInv(p)'
      BY <3>1, <3>2 DEF RunInv, StagingInv, ReplacingInv, Waits, Empty, Everything
    <3>4. RollbackInv(p)'
      BY <3>1, <3>2 DEF RunInv, RollbackInv, Pointing
    <3>5. PurposeInv(p)'
      BY <3>1, <3>2 DEF RunInv, PurposeInv, Untouched, Pointing, Empty, Everything
    <3>6. QED
      BY <3>3, <3>4, <3>5 DEF RunInv
  <2>5. QED
    BY <2>1, <2>2, <2>3, <2>4 DEF IInv
<1>3. QED
  BY <1>1, <1>2 DEF Next, Act, AllGone

-----------------------------------------------------------------------------
(* With one run at a time, a run knows at every await of                   *)
(* replaceStagedProtocol and recoverProtocolSync which paths are the old   *)
(* ones, which the staged ones, and what the journal says of them          *)
(* (sync-protocol.mjs:168-272).                                            *)
THEOREM RunsKnowWhereTheyAre ==
    ASSUME MaxRunning <= 1
    PROVE  Spec => []IInv
<1>1. Init => IInv
  BY InitInv
<1>2. IInv /\ [Next]_vars => IInv'
  BY NextInv
<1>3. QED
  BY <1>1, <1>2, PTL DEF Spec

(* The variables keep their types: no run reads a journal whose owner it   *)
(* does not know (sync-protocol.mjs:211-241).                              *)
THEOREM SyncTypeCorrect ==
    ASSUME MaxRunning <= 1
    PROVE  Spec => []SyncTypeOK
<1>1. IInv => SyncTypeOK
  BY DEF IInv
<1>2. QED
  BY <1>1, RunsKnowWhereTheyAre, PTL

(* A run that is killed or fails at any await leaves nothing behind that   *)
(* makes a later run fail: only a run that meets a fault of its own, or a  *)
(* journal that was cut short, fails (sync-protocol.mjs:211-272,           *)
(* tests/unit/protocol-sync-transaction.test.ts:77).                       *)
THEOREM LeavesNothingHarmful ==
    ASSUME MaxRunning <= 1
    PROVE  Spec => []LeftoversAreHarmless
<1>1. IInv => LeftoversAreHarmless
  BY DEF IInv
<1>2. QED
  BY <1>1, RunsKnowWhereTheyAre, PTL

(* The replaced paths are the old ones or the new ones, all together,      *)
(* whatever fails or is killed on the way: up to the rename of the         *)
(* committed journal a rollback restores the old ones, from there on they  *)
(* are the new ones (sync-protocol.mjs:182-209, 243-267).                  *)
THEOREM SyncImplementsAtomicTree ==
    ASSUME MaxRunning <= 1
    PROVE  Spec => ReplacesAtomically
<1>1. Init => Atomic!Init
  <2> SUFFICES ASSUME Init PROVE Atomic!Init
    OBVIOUS
  <2>1. SyncTypeOK /\ journal.state # "prepared"
    BY InitInv DEF IInv, Init, NoJournal
  <2>2. Effective = tree
    BY <2>1, EffectiveIsTree
  <2>3. QED
    BY <2>2 DEF Init, Atomic!Init
<1>2. IInv /\ [Next]_vars => [Atomic!Replace]_Effective
  <2> SUFFICES ASSUME IInv, [Next]_vars PROVE [Atomic!Replace]_Effective
    OBVIOUS
  <2>1. Effective' \in Snapshots \cup {Effective}
    BY NextInv
  <2>2. QED
    BY <2>1 DEF Atomic!Replace
<1>3. QED
  BY <1>1, <1>2, RunsKnowWhereTheyAre, PTL DEF Spec, ReplacesAtomically, Atomic!Spec

(* "Restoration is complete before the recovery pointer is removed"        *)
(* (sync-protocol.mjs:265) holds of runs that do not overlap.              *)
THEOREM RestoresBeforeRemoval ==
    ASSUME MaxRunning <= 1
    PROVE  Spec => RestoredBeforeRemoval
<1>1. IInv /\ [Next]_vars =>
         [journal.state = "prepared" /\ journal'.state = "none" =>
             tree' \in Originals \cup Snapshots]_vars
  <2> SUFFICES ASSUME IInv, [Next]_vars, journal'.state = "none"
               PROVE  tree' \in Originals \cup Snapshots
    OBVIOUS
  <2>1. IInv'
    BY NextInv
  <2>2. Effective' = tree'
    BY <2>1 DEF IInv, SyncTypeOK, Effective
  <2>3. Originals' = Originals /\ Snapshots' = Snapshots
    BY DEF Originals, Snapshots, Everything
  <2>4. QED
    BY <2>1, <2>2, <2>3 DEF IInv, Installed
<1>2. QED
  BY <1>1, RunsKnowWhereTheyAre, PTL DEF Spec, RestoredBeforeRemoval
=============================================================================
