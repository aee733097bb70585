---------------------------- MODULE ProtocolSync ----------------------------
(***************************************************************************)
(* The synchronization of the vendored protocol                            *)
(* (src/scripts/sync-protocol.mjs): a run stages new inputs, generated     *)
(* outputs and a lock in a directory of its own, then replaces the paths   *)
(* of the repository one rename at a time under a journal, so that a run   *)
(* that fails or is killed can be rolled back, by itself or by a later one.*)
(*                                                                         *)
(* Every await of the file system is a step.  Any of them may fail, and    *)
(* the process may be killed between any two (a "fault").  rename(2) and   *)
(* unlink(2) are atomic; writing a file and removing a directory are not.  *)
(* The staging directories are private to their runs and survive a kill.   *)
(*                                                                         *)
(* A run is a process with an ID of its own that synchronizes once.        *)
(***************************************************************************)
EXTENDS Naturals, FiniteSets

CONSTANTS
    Entries,     \* number of replaced paths; the first is the directory
                 \* protocol/source, the last is protocol/lock.json
    Runs,        \* number of runs
    MaxRunning,  \* runs at work at the same time
    MaxFaults    \* bound: operations that fail and processes killed

ASSUME SyncAssumption ==
    /\ Entries \in Nat \ {0, 1}
    /\ Runs \in Nat \ {0}
    /\ MaxRunning \in Nat
    /\ MaxFaults \in Nat

Paths     == 1 .. Entries
Source    == 1
Lock      == Entries
Processes == 1 .. Runs

(* The content of a path: what there was to begin with, what run p staged, *)
(* nothing, or what a removal that did not finish has left of a directory. *)
Original == 0
Absent   == Runs + 1
Broken   == Runs + 2
Contents == 0 .. Runs + 2

VARIABLES
    tree,      \* the repository: tree[i] is the content of path i
    staged,    \* staged[p]: the staging directory of run p
    backup,    \* backup[p]: .backup in that directory
    journal,   \* protocol/.sync-transaction.json
    nextFile,  \* protocol/.sync-transaction.json.next exists
    at,        \* at[p]: where run p is
    index,     \* index[p]: the entry its loop is at
    present,   \* present[p]: originallyPresent of the entries it scanned
    reads,     \* reads[p]: the journal its recovery has read
    purpose,   \* purpose[p]: why it recovers
    outcome,   \* outcome[p]: how it ended
    faulty,    \* history: the runs that met a fault or a torn journal
    faults     \* history: number of faults

local == <<index, present, reads, purpose>>
files == <<tree, staged, backup, journal, nextFile>>
vars  == <<files, local, at, outcome, faulty, faults>>

-----------------------------------------------------------------------------
Everything(content) == [i \in Paths |-> content]
Empty     == Everything(Absent)
Originals == {t \in [Paths -> {Original, Absent}] : t[Lock] = Original}
Snapshots == {Everything(p) : p \in Processes}

Journals ==
    [state : {"none", "torn", "prepared", "committed"}, owner : 0 .. Runs,
     present : SUBSET Paths]

NoJournal == [state |-> "none", owner |-> 0, present |-> {}]

Places ==
    {"new", "recovering", "staging", "scanning", "journaling", "moving",
     "placing", "writingNext", "committing", "checking", "removing",
     "restoring", "dropping", "removingNext", "removingJournal", "disposing",
     "cleaning", "gone"}

SyncTypeOK ==
    /\ tree \in [Paths -> Contents]
    /\ staged \in [Processes -> [Paths -> Contents]]
    /\ backup \in [Processes -> [Paths -> Contents]]
    /\ journal \in Journals
    /\ nextFile \in BOOLEAN
    /\ at \in [Processes -> Places]
    /\ index \in [Processes -> Paths]
    /\ present \in [Processes -> SUBSET Paths]
    /\ reads \in [Processes -> Journals]
    /\ purpose \in [Processes -> {"none", "stale", "failed", "finish"}]
    /\ outcome \in [Processes -> {"none", "ok", "failed", "killed"}]
    /\ faulty \subseteq Processes
    /\ faults \in 0 .. MaxFaults

Init ==
    /\ tree \in Originals
    /\ staged = [p \in Processes |-> Empty]
    /\ backup = [p \in Processes |-> Empty]
    /\ journal = NoJournal
    /\ nextFile = FALSE
    /\ at = [p \in Processes |-> "new"]
    /\ index = [p \in Processes |-> 1]
    /\ present = [p \in Processes |-> {}]
    /\ reads = [p \in Processes |-> NoJournal]
    /\ purpose = [p \in Processes |-> "none"]
    /\ outcome = [p \in Processes |-> "none"]
    /\ faulty = {}
    /\ faults = 0

-----------------------------------------------------------------------------
Alive(p) == at[p] \notin {"new", "gone"}

GoTo(p, place) == at' = [at EXCEPT ![p] = place]

SetIndex(p, i) == index' = [index EXCEPT ![p] = i]

NoFault == UNCHANGED <<outcome, faulty, faults>>

(* An exception: while the entries are replaced it leads to the rollback,  *)
(* anywhere else to the end of the run, which then fails.                  *)
Throw(p) ==
    IF at[p] \in {"moving", "placing", "writingNext", "committing"}
    THEN /\ GoTo(p, "recovering")
         /\ purpose' = [purpose EXCEPT ![p] = "failed"]
         /\ UNCHANGED <<outcome, index, present, reads>>
    ELSE /\ GoTo(p, "cleaning")
         /\ outcome' = [outcome EXCEPT ![p] = "failed"]
         /\ UNCHANGED local

Fault(p) ==
    /\ faults < MaxFaults
    /\ faults' = faults + 1
    /\ faulty' = faulty \cup {p}

-----------------------------------------------------------------------------
(* synchronizeProtocol up to the replacement.                              *)
Begin(p) ==
    /\ at[p] = "new"
    /\ Cardinality({q \in Processes : Alive(q)}) < MaxRunning
    /\ GoTo(p, "recovering")
    /\ purpose' = [purpose EXCEPT ![p] = "stale"]
    /\ UNCHANGED <<files, index, present, reads>>
    /\ NoFault

(* recoverProtocolSync reads the journal: with none it returns, one that   *)
(* does not parse or whose owner is at work makes it throw, a prepared one *)
(* is rolled back from the last entry on, a committed one cleaned up.      *)
ReadJournal(p) ==
    /\ at[p] = "recovering"
    /\ \/ /\ journal.state = "none"
          /\ IF purpose[p] = "stale"
             THEN GoTo(p, "staging") /\ UNCHANGED outcome
             ELSE /\ GoTo(p, "cleaning")
                  /\ outcome' = [outcome EXCEPT
                         ![p] = IF purpose[p] = "finish" THEN "ok" ELSE "failed"]
          /\ UNCHANGED <<local, faulty, faults>>
       \/ /\ journal.state = "torn"
          /\ Throw(p)
          /\ faulty' = faulty \cup {p}
          /\ UNCHANGED faults
       \/ /\ journal.state \in {"prepared", "committed"}
          /\ journal.owner # p \/ purpose[p] = "stale"
          /\ Alive(journal.owner)
          /\ Throw(p)
          /\ UNCHANGED <<faulty, faults>>
       \/ /\ journal.state \in {"prepared", "committed"}
          /\ (journal.owner = p /\ purpose[p] # "stale") \/ ~Alive(journal.owner)
          /\ reads' = [reads EXCEPT ![p] = journal]
          /\ IF journal.state = "prepared"
             THEN GoTo(p, "checking") /\ SetIndex(p, Entries)
             ELSE GoTo(p, "removingNext") /\ UNCHANGED index
          /\ UNCHANGED <<present, purpose>>
          /\ NoFault
    /\ UNCHANGED files

(* Inputs, outputs and the lock are written to the staging directory and   *)
(* generated from there; the lock there is must be readable.               *)
Stage(p) ==
    /\ at[p] = "staging"
    /\ IF tree[Lock] = Absent
       THEN Throw(p) /\ UNCHANGED staged
       ELSE /\ staged' = [staged EXCEPT ![p] = Everything(p)]
            /\ GoTo(p, "scanning")
            /\ SetIndex(p, 1)
            /\ UNCHANGED <<present, reads, purpose, outcome>>
    /\ UNCHANGED <<tree, backup, journal, nextFile, faulty, faults>>

-----------------------------------------------------------------------------
(* replaceStagedProtocol.                                                  *)
Scan(p) ==
    LET i == index[p] IN
    /\ at[p] = "scanning"
    /\ present' = [present EXCEPT ![p] = IF tree[i] = Absent THEN @ ELSE @ \cup {i}]
    /\ IF i < Entries
       THEN SetIndex(p, i + 1) /\ UNCHANGED at
       ELSE GoTo(p, "journaling") /\ UNCHANGED index
    /\ UNCHANGED <<files, reads, purpose>>
    /\ NoFault

(* The first entry that there is: its target is moved to the backup.       *)
StartEntry(p, i, there) ==
    /\ SetIndex(p, i)
    /\ GoTo(p, IF i \in there THEN "moving" ELSE "placing")

(* The journal is created exclusively.                                     *)
WriteJournal(p) ==
    /\ at[p] = "journaling"
    /\ IF journal.state # "none"
       THEN Throw(p) /\ UNCHANGED journal
       ELSE /\ journal' = [state |-> "prepared", owner |-> p, present |-> present[p]]
            /\ StartEntry(p, 1, present[p])
            /\ UNCHANGED <<present, reads, purpose, outcome>>
    /\ UNCHANGED <<tree, staged, backup, nextFile, faulty, faults>>

MoveToBackup(p) ==
    LET i == index[p] IN
    /\ at[p] = "moving"
    /\ IF tree[i] = Absent
       THEN Throw(p) /\ UNCHANGED <<tree, backup>>
       ELSE /\ backup' = [backup EXCEPT ![p][i] = tree[i]]
            /\ tree' = [tree EXCEPT ![i] = Absent]
            /\ GoTo(p, "placing")
            /\ UNCHANGED <<local, outcome>>
    /\ UNCHANGED <<staged, journal, nextFile, faulty, faults>>

(* A directory is not renamed over one that is not empty, a file is.       *)
PlaceStaged(p) ==
    LET i == index[p] IN
    /\ at[p] = "placing"
    /\ IF staged[p][i] = Absent \/ (i = Source /\ tree[i] # Absent)
       THEN Throw(p) /\ UNCHANGED <<tree, staged>>
       ELSE /\ tree' = [tree EXCEPT ![i] = staged[p][i]]
            /\ staged' = [staged EXCEPT ![p][i] = Absent]
            /\ IF i < Entries
               THEN StartEntry(p, i + 1, present[p])
               ELSE GoTo(p, "writingNext") /\ UNCHANGED index
            /\ UNCHANGED <<present, reads, purpose, outcome>>
    /\ UNCHANGED <<backup, journal, nextFile, faulty, faults>>

(* The committed journal is written beside the other, exclusively ...      *)
WriteNext(p) ==
    /\ at[p] = "writingNext"
    /\ IF nextFile
       THEN Throw(p) /\ UNCHANGED nextFile
       ELSE /\ nextFile' = TRUE
            /\ GoTo(p, "committing")
            /\ UNCHANGED <<local, outcome>>
    /\ UNCHANGED <<tree, staged, backup, journal, faulty, faults>>

(* ... and renamed over it, which commits the run.                         *)
CommitJournal(p) ==
    /\ at[p] = "committing"
    /\ IF ~nextFile
       THEN Throw(p) /\ UNCHANGED <<journal, nextFile>>
       ELSE /\ journal' = [state |-> "committed", owner |-> p, present |-> present[p]]
            /\ nextFile' = FALSE
            /\ GoTo(p, "recovering")
            /\ purpose' = [purpose EXCEPT ![p] = "finish"]
            /\ UNCHANGED <<index, present, reads, outcome>>
    /\ UNCHANGED <<tree, staged, backup, faulty, faults>>

-----------------------------------------------------------------------------
(* The entries are gone through in reverse.                                *)
NextEntry(p) ==
    IF index[p] > 1
    THEN SetIndex(p, index[p] - 1) /\ GoTo(p, "checking")
    ELSE GoTo(p, "removingNext") /\ UNCHANGED index

(* An entry without backup was not there before, or has not been moved.    *)
BadCheckEntry(p) ==
    LET q == reads[p].owner
        i == index[p]
    IN
    /\ at[p] = "checking"
    /\ \/ backup[q][i] # Absent /\ GoTo(p, "removing") /\ UNCHANGED index
       \/ backup[q][i] = Absent /\ staged[q][i] = Absent
          /\ GoTo(p, "dropping") /\ UNCHANGED index
       \/ backup[q][i] = Absent /\ staged[q][i] # Absent
          /\ NextEntry(p)
    /\ UNCHANGED <<files, present, reads, purpose>>
    /\ NoFault

(* An entry with a backup is restored from it; one that was not there      *)
(* before and has been placed is dropped; any other has not been touched.  *)
CheckEntry(p) ==
    LET q == reads[p].owner
        i == index[p]
    IN
    /\ at[p] = "checking"
    /\ \/ backup[q][i] # Absent /\ GoTo(p, "removing") /\ UNCHANGED index
       \/ backup[q][i] = Absent /\ i \notin reads[p].present /\ staged[q][i] = Absent
          /\ GoTo(p, "dropping") /\ UNCHANGED index
       \/ backup[q][i] = Absent /\ (i \in reads[p].present \/ staged[q][i] # Absent)
          /\ NextEntry(p)
    /\ UNCHANGED <<files, present, reads, purpose>>
    /\ NoFault

RemoveTarget(p) ==
    /\ at[p] = "removing"
    /\ tree' = [tree EXCEPT ![index[p]] = Absent]
    /\ GoTo(p, "restoring")
    /\ UNCHANGED <<staged, backup, journal, nextFile, local>>
    /\ NoFault

RestoreBackup(p) ==
    LET q == reads[p].owner
        i == index[p]
    IN
    /\ at[p] = "restoring"
    /\ IF backup[q][i] = Absent \/ (i = Source /\ tree[i] # Absent)
       THEN Throw(p) /\ UNCHANGED <<tree, backup>>
       ELSE /\ tree' = [tree EXCEPT ![i] = backup[q][i]]
            /\ backup' = [backup EXCEPT ![q][i] = Absent]
            /\ NextEntry(p)
            /\ UNCHANGED <<present, reads, purpose, outcome>>
    /\ UNCHANGED <<staged, journal, nextFile, faulty, faults>>

DropTarget(p) ==
    /\ at[p] = "dropping"
    /\ tree' = [tree EXCEPT ![index[p]] = Absent]
    /\ NextEntry(p)
    /\ UNCHANGED <<staged, backup, journal, nextFile, present, reads, purpose>>
    /\ NoFault

(* The file of a commit that did not happen is left where it is.           *)
BadRemoveNext(p) ==
    /\ at[p] = "removingNext"
    /\ GoTo(p, "removingJournal")
    /\ UNCHANGED <<files, local>>
    /\ NoFault

RemoveNext(p) ==
    /\ at[p] = "removingNext"
    /\ nextFile' = FALSE
    /\ GoTo(p, "removingJournal")
    /\ UNCHANGED <<tree, staged, backup, journal, local>>
    /\ NoFault

RemoveJournal(p) ==
    /\ at[p] = "removingJournal"
    /\ IF journal.state = "none"
       THEN Throw(p) /\ UNCHANGED journal
       ELSE /\ journal' = NoJournal
            /\ GoTo(p, "disposing")
            /\ UNCHANGED <<local, outcome>>
    /\ UNCHANGED <<tree, staged, backup, nextFile, faulty, faults>>

Clear(q) ==
    /\ staged' = [staged EXCEPT ![q] = Empty]
    /\ backup' = [backup EXCEPT ![q] = Empty]

(* The staging directory goes; a run that found it goes on, one that       *)
(* rolled itself back has failed.                                          *)
Dispose(p) ==
    /\ at[p] = "disposing"
    /\ Clear(reads[p].owner)
    /\ IF purpose[p] = "stale"
       THEN GoTo(p, "staging") /\ UNCHANGED outcome
       ELSE /\ GoTo(p, "cleaning")
            /\ outcome' = [outcome EXCEPT
                   ![p] = IF purpose[p] = "finish" THEN "ok" ELSE "failed"]
    /\ UNCHANGED <<tree, journal, nextFile, local, faulty, faults>>

(* The finally of synchronizeProtocol keeps a staging directory that a     *)
(* journal points to; then the process exits.                              *)
CleanUp(p) ==
    /\ at[p] = "cleaning"
    /\ IF journal.state = "none" \/ (journal.state # "torn" /\ journal.owner # p)
       THEN Clear(p)
       ELSE UNCHANGED <<staged, backup>>
    /\ GoTo(p, "gone")
    /\ UNCHANGED <<tree, journal, nextFile, local>>
    /\ NoFault

-----------------------------------------------------------------------------
(* What an operation that is cut short may leave behind.                   *)
Interrupted(p) ==
    /\ \/ tree' = tree
       \/ at[p] \in {"removing", "dropping"} /\ index[p] = Source
          /\ tree' = [tree EXCEPT ![Source] = Broken]
    /\ \/ journal' = journal
       \/ at[p] = "journaling" /\ journal.state = "none"
          /\ journal' = [state |-> "torn", owner |-> p, present |-> {}]
    /\ \/ nextFile' = nextFile
       \/ at[p] = "writingNext" /\ nextFile' = TRUE
    /\ UNCHANGED <<staged, backup>>

(* An operation fails: Throw.                                              *)
Fails(p) ==
    /\ Alive(p) /\ at[p] # "cleaning"
    /\ Fault(p)
    /\ Interrupted(p)
    /\ Throw(p)

(* The process is killed.                                                  *)
Killed(p) ==
    /\ Alive(p)
    /\ Fault(p)
    /\ Interrupted(p)
    /\ GoTo(p, "gone")
    /\ outcome' = [outcome EXCEPT ![p] = IF @ = "none" THEN "killed" ELSE @]
    /\ UNCHANGED local

Step(p) ==
    Begin(p) \/ ReadJournal(p) \/ Stage(p) \/ Scan(p) \/ WriteJournal(p)
        \/ MoveToBackup(p) \/ PlaceStaged(p) \/ WriteNext(p) \/ CommitJournal(p)
        \/ CheckEntry(p) \/ RemoveTarget(p) \/ RestoreBackup(p) \/ DropTarget(p)
        \/ RemoveNext(p) \/ RemoveJournal(p) \/ Dispose(p) \/ CleanUp(p)

AllGone ==
    /\ \A p \in Processes : at[p] = "gone"
    /\ UNCHANGED vars

Next ==
    \/ \E p \in Processes : Step(p) \/ Fails(p) \/ Killed(p)
    \/ AllGone

Spec == Init /\ [][Next]_vars

-----------------------------------------------------------------------------
(* What the repository amounts to: under a prepared journal, what rolling  *)
(* it back would restore.                                                  *)
Effective ==
    LET q == journal.owner IN
    [i \in Paths |->
        IF journal.state # "prepared" THEN tree[i]
        ELSE IF backup[q][i] # Absent THEN backup[q][i]
        ELSE IF i \notin journal.present /\ staged[q][i] = Absent THEN Absent
        ELSE tree[i]]

Atomic == INSTANCE AtomicTree WITH tree <- Effective

(* Whatever fails or is killed at any point of a replacement or of a       *)
(* rollback, the repository holds or can be restored to one synchronized   *)
(* state: it changes from one to another only when a run commits           *)
(* (sync-protocol.mjs:182-209, 243-267).                                   *)
ReplacesAtomically == Atomic!Spec

(* tests/unit/protocol-sync-transaction.test.ts:77 - what an earlier run   *)
(* left behind never makes a later one fail: a run that meets no fault of  *)
(* its own, no torn journal and no other run at work succeeds.             *)
LeftoversAreHarmless ==
    \A p \in Processes : outcome[p] = "failed" => p \in faulty

(* sync-protocol.mjs:265 - "Restoration is complete before the recovery    *)
(* pointer is removed": the journal of a run that did not commit goes only *)
(* when the repository is what it was before that run.                     *)
RestoredBeforeRemoval ==
    [][journal.state = "prepared" /\ journal'.state = "none" =>
          tree' \in Originals \cup Snapshots]_vars
=============================================================================
