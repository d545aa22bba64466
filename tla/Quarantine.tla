----------------------------- MODULE Quarantine -----------------------------
(***************************************************************************)
(* QuarantineManager: moving a file into the vault, restoring and purging  *)
(* it, and the index that is the only thing that says what a vault file is.*)
(*                                                                         *)
(* One mutex serialises the four operations, so there is at most one job.  *)
(* Between two of its steps every other program can write and delete       *)
(* files, the machine can go down, and a deletion left to the next reboot  *)
(* waits as long as that takes.  The ladders that read and delete a busy   *)
(* file (own lock, backup semantics, kernel) are one step that succeeds or *)
(* fails.  Not here: who decides that a file goes into quarantine, and the *)
(* deny-execute entry a file gets that can only be deleted at reboot.      *)
(***************************************************************************)
EXTENDS Naturals

CONSTANTS
    Paths,     \* places of files
    Ids,       \* the identifiers an entry can get; a bound on the quarantines
    Bytes,     \* what a file can hold
    Garbled,   \* the content of a copy that was cut short
    NoFile     \* there is no file

ASSUME QuarantineAssumption ==
    /\ Garbled \notin Bytes
    /\ NoFile \notin Bytes \cup {Garbled}

Contents == Bytes \cup {Garbled}
Entry    == [id : Ids, path : Paths]

Index      == [state : {"absent", "damaged", "good"}, table : SUBSET Entry]
Good(table) == [state |-> "good", table |-> table]
Absent      == [state |-> "absent", table |-> {}]
Damaged     == [state |-> "damaged", table |-> {}]

VARIABLES
    file,      \* the file at each path
    aside,     \* the file at <path>.restored
    doomed,    \* paths that are deleted at the next reboot
    vault,     \* the vault file of each identifier
    index,     \* index.json: the entries in it
    entries,   \* entries_
    loaded,    \* loaded_
    job,       \* the operation that holds io_
    answer,    \* what lay at the path when the last quarantine said yes
    copied,    \* history: the content an identifier was given for
    removed,   \* history: the content its quarantine deleted
    fate       \* history: what became of the identifier

vaultVars == <<file, aside, doomed, vault, index, entries, loaded, job, answer,
          copied, removed, fate>>

disk    == <<file, aside, doomed>>
memory  == <<entries, loaded>>
history == <<copied, removed, fate>>

Job == [kind : {"quarantine", "restore", "purge"}, id : Ids, path : Paths,
        at : {"copy", "delete", "forget", "save"},
        aside : BOOLEAN,       \* restoring to <path>.restored
        rewritten : BOOLEAN]   \* history: another program changed the file
NoJob == [at |-> "idle"]
Fates == {"new", "working", "deleted", "raced", "kept", "failed", "released"}

VaultTypeOK ==
    /\ file \in [Paths -> Contents \cup {NoFile}]
    /\ aside \in [Paths -> Contents \cup {NoFile}]
    /\ doomed \subseteq Paths
    /\ vault \in [Ids -> Contents \cup {NoFile}]
    /\ index \in Index
    /\ entries \subseteq Entry
    /\ loaded \in BOOLEAN
    /\ job \in Job \cup {NoJob}
    /\ answer \in Contents \cup {NoFile}
    /\ copied \in [Ids -> Contents \cup {NoFile}]
    /\ removed \in [Ids -> Contents \cup {NoFile}]
    /\ fate \in [Ids -> Fates]

VaultInit ==
    /\ file \in [Paths -> Bytes \cup {NoFile}]
    /\ aside = [p \in Paths |-> NoFile]
    /\ doomed = {}
    /\ vault = [i \in Ids |-> NoFile]
    /\ index = Absent
    /\ entries = {}
    /\ loaded = FALSE
    /\ job = NoJob
    /\ answer = NoFile
    /\ copied = [i \in Ids |-> NoFile]
    /\ removed = [i \in Ids |-> NoFile]
    /\ fate = [i \in Ids |-> "new"]

-----------------------------------------------------------------------------
(* The index.                                                               *)

\* ensureLoaded: what it leaves in entries_ and loaded_.  An index that is
\* there but cannot be opened leaves both alone, to be tried again.
MustRead == ~ loaded /\ index # Absent
Table(opens)  == IF MustRead /\ opens /\ index # Damaged THEN index.table ELSE entries
HasLoaded(opens) == loaded \/ index = Absent \/ opens

EnsureLoaded_MarksAtOnce(opens) ==
    /\ entries' = Table(opens)
    /\ loaded' = TRUE

EnsureLoaded(opens) ==
    /\ entries' = Table(opens)
    /\ loaded' = HasLoaded(opens)

\* saveIndex: nothing while the index has not been read.  The write goes
\* through a temporary file; when that fails it is repeated in place, which
\* can fail before the file is touched or after it was emptied, and then the
\* rest of it is removed.
SaveIndex(table) ==
    \/ loaded /\ index' = Good(table)
    \/ index' = index
    \/ loaded /\ index' = Absent

Vaulted(e) == vault[e.id] # NoFile

-----------------------------------------------------------------------------
(* Moving a file into the vault.                                            *)

\* list, isAlreadyQuarantined, and every operation that finds nothing to do.
Look(opens) ==
    /\ job = NoJob
    /\ EnsureLoaded(opens)
    /\ UNCHANGED <<disk, vault, index, job, answer, history>>

\* A path whose vault copy is still there is not quarantined a second time.
HeldCopies(p, opens) == {e \in Table(opens) : e.path = p /\ Vaulted(e)}

QuarantineAgain(p, opens) ==
    /\ job = NoJob
    /\ file[p] # NoFile
    /\ EnsureLoaded(opens)
    /\ HeldCopies(p, opens) # {}
    /\ answer' = file[p]
    /\ UNCHANGED <<disk, vault, index, job, history>>

QuarantineBegins(p, i, opens) ==
    /\ job = NoJob
    /\ file[p] # NoFile
    /\ EnsureLoaded(opens)
    /\ HeldCopies(p, opens) = {}
    /\ fate[i] = "new"
    /\ fate' = [fate EXCEPT ![i] = "working"]
    /\ job' = [kind |-> "quarantine", id |-> i, path |-> p, at |-> "copy",
               aside |-> FALSE, rewritten |-> FALSE]
    /\ answer' = NoFile
    /\ UNCHANGED <<disk, vault, index, copied, removed>>

\* A copy that fails half-way takes its half with it.
MakeVaultCopy_KeepsHalf ==
    /\ job.at = "copy" /\ job.kind = "quarantine"
    /\ \/ /\ file[job.path] # NoFile
          /\ \E c \in {file[job.path], Garbled} : vault' = [vault EXCEPT ![job.id] = c]
          /\ copied' = [copied EXCEPT ![job.id] = file[job.path]]
          /\ job' = [job EXCEPT !.at = "delete"]
          /\ UNCHANGED fate
       \/ /\ fate' = [fate EXCEPT ![job.id] = "failed"]
          /\ job' = NoJob
          /\ UNCHANGED <<vault, copied>>
    /\ UNCHANGED <<disk, index, memory, answer, removed>>

MakeVaultCopy ==
    /\ job.at = "copy" /\ job.kind = "quarantine"
    /\ \/ /\ file[job.path] # NoFile
          /\ vault' = [vault EXCEPT ![job.id] = file[job.path]]
          /\ copied' = [copied EXCEPT ![job.id] = file[job.path]]
          /\ job' = [job EXCEPT !.at = "delete"]
          /\ UNCHANGED fate
       \/ /\ fate' = [fate EXCEPT ![job.id] = "failed"]
          /\ job' = NoJob
          /\ UNCHANGED <<vault, copied>>
    /\ UNCHANGED <<disk, index, memory, answer, removed>>

\* Deletes what is at the path by now; what cannot be deleted is left to the
\* next reboot, and counts as quarantined all the same.
DeleteOriginal_BeforeCopy ==
    /\ job.at \in {"copy", "delete"} /\ job.kind = "quarantine"
    /\ job' = [job EXCEPT !.at = "save"]
    /\ \/ /\ file[job.path] # NoFile
          /\ file' = [file EXCEPT ![job.path] = NoFile]
          /\ removed' = [removed EXCEPT ![job.id] = file[job.path]]
          /\ fate' = [fate EXCEPT ![job.id] = IF job.rewritten THEN "raced" ELSE "deleted"]
          /\ UNCHANGED doomed
       \/ /\ doomed' = doomed \cup {job.path}
          /\ fate' = [fate EXCEPT ![job.id] = "kept"]
          /\ UNCHANGED <<file, removed>>
    /\ UNCHANGED <<aside, vault, index, memory, answer, copied>>

DeleteOriginal ==
    /\ job.at = "delete"
    /\ job' = [job EXCEPT !.at = "save"]
    /\ \/ /\ file[job.path] # NoFile
          /\ file' = [file EXCEPT ![job.path] = NoFile]
          /\ removed' = [removed EXCEPT ![job.id] = file[job.path]]
          /\ fate' = [fate EXCEPT ![job.id] = IF job.rewritten THEN "raced" ELSE "deleted"]
          /\ UNCHANGED doomed
       \/ /\ doomed' = doomed \cup {job.path}
          /\ fate' = [fate EXCEPT ![job.id] = "kept"]
          /\ UNCHANGED <<file, removed>>
    /\ UNCHANGED <<aside, vault, index, memory, answer, copied>>

-----------------------------------------------------------------------------
(* Giving a file back, and throwing one away.                               *)

RestoreBegins(e, opens) ==
    /\ job = NoJob
    /\ EnsureLoaded(opens)
    /\ e \in Table(opens)
    /\ Vaulted(e)
    /\ job' = [kind |-> "restore", id |-> e.id, path |-> e.path, at |-> "copy",
               aside |-> file[e.path] # NoFile, rewritten |-> FALSE]
    /\ answer' = NoFile
    /\ UNCHANGED <<disk, vault, index, history>>

\* The target holds c after the copy, whatever it held before.
WriteTarget(c) ==
    IF job.aside THEN aside' = [aside EXCEPT ![job.path] = c] /\ UNCHANGED file
                 ELSE file' = [file EXCEPT ![job.path] = c] /\ UNCHANGED aside

RestoreCopy ==
    /\ job.at = "copy" /\ job.kind = "restore"
    /\ \/ WriteTarget(vault[job.id]) /\ job' = [job EXCEPT !.at = "forget"]
       \/ WriteTarget(NoFile) /\ job' = NoJob
       \/ UNCHANGED <<file, aside>> /\ job' = NoJob
    /\ UNCHANGED <<doomed, vault, index, memory, answer, history>>

PurgeBegins(e, opens) ==
    /\ job = NoJob
    /\ EnsureLoaded(opens)
    /\ e \in Table(opens)
    /\ job' = [kind |-> "purge", id |-> e.id, path |-> e.path, at |-> "forget",
               aside |-> FALSE, rewritten |-> FALSE]
    /\ answer' = NoFile
    /\ UNCHANGED <<disk, vault, index, history>>

\* Nobody looks whether the vault file could be removed.
Forget ==
    /\ job.at = "forget"
    /\ \/ vault' = [vault EXCEPT ![job.id] = NoFile]
       \/ UNCHANGED vault
    /\ fate' = [fate EXCEPT ![job.id] = "released"]
    /\ job' = [job EXCEPT !.at = "save"]
    /\ UNCHANGED <<disk, index, memory, answer, copied, removed>>

SaveEntries ==
    /\ job.at = "save"
    /\ entries' = IF job.kind = "quarantine"
                   THEN entries \cup {[id |-> job.id, path |-> job.path]}
                   ELSE {e \in entries : e.id # job.id}
    /\ SaveIndex(entries')
    /\ answer' = IF job.kind = "quarantine" THEN copied[job.id] ELSE NoFile
    /\ job' = NoJob
    /\ UNCHANGED <<disk, vault, loaded, history>>

-----------------------------------------------------------------------------
(* The world around it.                                                     *)

\* Another program writes the file.
WriteFile(p, b) ==
    /\ file' = [file EXCEPT ![p] = b]
    /\ job' = IF job.at = "delete" /\ job.path = p
              THEN [job EXCEPT !.rewritten = TRUE] ELSE job
    /\ UNCHANGED <<aside, doomed, vault, index, memory, answer, history>>

\* Another program deletes the file.
RemoveFile(p) ==
    /\ file[p] # NoFile
    /\ file' = [file EXCEPT ![p] = NoFile]
    /\ UNCHANGED <<aside, doomed, vault, index, memory, job, answer, history>>

\* The service goes down and comes back.  A copy is cut short, and an index
\* that was being written in place no longer parses.
VaultCrash ==
    /\ \/ /\ job.at = "copy" /\ job.kind = "quarantine"
          /\ vault' = [vault EXCEPT ![job.id] = Garbled]
          /\ UNCHANGED <<file, aside, index>>
       \/ /\ job.at = "copy" /\ job.kind = "restore"
          /\ WriteTarget(Garbled)
          /\ UNCHANGED <<vault, index>>
       \/ /\ job.at = "save" /\ loaded
          /\ index' = Damaged
          /\ UNCHANGED <<file, aside, vault>>
       \/ UNCHANGED <<file, aside, vault, index>>
    /\ fate' = IF job # NoJob /\ fate[job.id] = "working"
               THEN [fate EXCEPT ![job.id] = "failed"] ELSE fate
    /\ entries' = {}
    /\ loaded' = FALSE
    /\ job' = NoJob
    /\ answer' = NoFile
    /\ UNCHANGED <<doomed, copied, removed>>

\* The machine restarts between two operations and deletes what it was asked to.
Reboot ==
    /\ job = NoJob
    /\ file' = [p \in Paths |-> IF p \in doomed THEN NoFile ELSE file[p]]
    /\ doomed' = {}
    /\ entries' = {}
    /\ loaded' = FALSE
    /\ answer' = NoFile
    /\ UNCHANGED <<aside, vault, index, job, history>>

VaultNext ==
    \/ \E opens \in BOOLEAN :
          \/ Look(opens)
          \/ \E p \in Paths : \/ QuarantineAgain(p, opens)
                              \/ \E i \in Ids : QuarantineBegins(p, i, opens)
          \/ \E e \in Entry : RestoreBegins(e, opens) \/ PurgeBegins(e, opens)
    \/ MakeVaultCopy \/ DeleteOriginal \/ RestoreCopy \/ Forget \/ SaveEntries
    \/ \E p \in Paths : RemoveFile(p) \/ \E b \in Bytes : WriteFile(p, b)
    \/ VaultCrash \/ Reboot

VaultSpec == VaultInit /\ [][VaultNext]_vaultVars

-----------------------------------------------------------------------------
(* What it is for.                                                          *)

\* What the index or the table in memory lists can be given back: its vault
\* file is there, whole, with the content the entry was made for, until the
\* user has it restored or purged (the order of the steps of quarantine, and
\* what neutralizeCopy removes).
ListedIsRestorable ==
    \A e \in entries \cup index.table :
        fate[e.id] # "released" => vault[e.id] = copied[e.id] /\ Vaulted(e)

\* A file the quarantine deleted is in the vault as it was, at every moment
\* and through every crash, unless another program rewrote it between the
\* copy and the deletion, or the user decided (the order copy, delete).
DeletedIsVaulted ==
    \A i \in Ids : fate[i] = "deleted" => vault[i] = removed[i]

\* At most one vault copy of a path is listed, however often its file is
\* reported and whatever the index went through (the check at the start of
\* quarantine).
OneCopyPerPath ==
    \A d, e \in entries : d.path = e.path /\ Vaulted(d) /\ Vaulted(e) => d = e

\* The index is never replaced by a table that lacks an entry nobody restored
\* or purged, as it would be by one that could not read it (ensureLoaded and
\* the first lines of saveIndex).
NeverOverwritten ==
    [][index'.state = "good"
        => \A e \in index.table : e \in index'.table \/ fate'[e.id] = "released"]_vaultVars

\* When quarantine answers yes, what lay at the path is in the vault (what the
\* answer tells the user, ThreatRemediator::forceQuarantine).
\* Not so: README, section 6.
AnswerIsVaulted ==
    answer # NoFile => \E i \in Ids : vault[i] = answer

\* No entry that was saved leaves the index unless it is restored or purged
\* (what the comment in saveIndex says the atomic write is for).
\* Not so: README, section 6.
IndexSurvives ==
    [][\A e \in index.table : e \in index'.table \/ fate'[e.id] = "released"]_vaultVars
=============================================================================
