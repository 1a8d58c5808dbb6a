------------------------------ MODULE Bootstrap ------------------------------
(***************************************************************************)
(* The start of a node that fetches a snapshot of the databases before it  *)
(* opens them (maybe_bootstrap_snapshot in utils/bootstrap.py): the archive *)
(* is extracted beside the node's directory, the directory is moved aside,  *)
(* the extracted one takes its place and is then validated, and the one     *)
(* moved aside is deleted, or put back when something failed.  The process  *)
(* may be killed between any two of these steps.                            *)
(*                                                                         *)
(* The process opens a database once: storage/kv.py keeps the handle under  *)
(* the path, and it goes on reading the same database when the directory is *)
(* moved or deleted.                                                        *)
(*                                                                         *)
(* A database is its number; the node's own first one is 1 and each that is *)
(* made later is newer.  Download, extraction and manifest are one choice   *)
(* of what they yield.                                                      *)
(***************************************************************************)
EXTENDS Integers

CONSTANTS Starts        \* how often the node is started

VARIABLES node,         \* the database in the node's directory, NoDb if there is none
          aside,        \* the databases in directories moved aside (*.bak_*)
          staging,      \* the database extracted by this start
          backup,       \* the one this start moved aside
          handle,       \* the database the process has open, NoDb before it opens one
          at,           \* where this start is
          lastMade,     \* the number last given to a database
          trusted,      \* the database last found valid in its place, or the first one
          misread,      \* the last validation that passed read another database than
                        \* the one installed
          starts        \* how many starts are left

bootVars == << node, aside, staging, backup, handle, at, lastMade, trusted, misread,
               starts >>
verdict == << trusted, misread >>

NoDb == 0

----------------------------------------------------------------------------
\* The bootstrap is skipped (disabled, no URL, or the local chain is as high
\* as the manifest says), fails to fetch, or has its snapshot extracted.  The
\* local height is read from the chain itself when there is no metadata file.
StartUp ==
    /\ at = "off" /\ starts > 0 /\ starts' = starts - 1
    /\ \/ /\ at' = "run" /\ UNCHANGED << staging, lastMade >>
       \/ /\ at' = "extracted" /\ lastMade' = lastMade + 1 /\ staging' = lastMade'
    /\ backup' = NoDb /\ handle' \in {NoDb, node}
    /\ UNCHANGED << node, aside, verdict >>

MoveAside ==
    /\ at = "extracted" /\ at' = "aside"
    /\ backup' = node /\ node' = NoDb
    /\ aside' = IF node = NoDb THEN aside ELSE aside \cup {node}
    /\ UNCHANGED << staging, handle, lastMade, verdict, starts >>

\* The directory cannot be moved: nothing was replaced, nothing is rolled back.
MoveFails ==
    /\ at = "extracted" /\ at' = "run" /\ staging' = NoDb
    /\ UNCHANGED << node, aside, backup, handle, lastMade, verdict, starts >>

Install ==
    /\ at = "aside" /\ at' = "installed"
    /\ node' = staging /\ staging' = NoDb
    /\ UNCHANGED << aside, backup, handle, lastMade, verdict, starts >>

InstallFails ==
    /\ at = "aside" /\ at' = "restore" /\ staging' = NoDb
    /\ UNCHANGED << node, aside, backup, handle, lastMade, verdict, starts >>

\* _validate_snapshot_chain reads through the handle, opened here if it was not.
Validation ==
    /\ handle' = IF handle = NoDb THEN node ELSE handle
    /\ \/ at' = "validated" /\ trusted' = handle' /\ misread' = (handle' # node)
       \/ at' = "undo" /\ UNCHANGED verdict

\* Mutant: what was moved aside is deleted before the validation.
Validate_AfterCleanup ==
    /\ at = "installed" /\ Validation
    /\ aside' = aside \ {backup}
    /\ UNCHANGED << node, staging, backup, lastMade, starts >>

Validate ==
    /\ at = "installed" /\ Validation
    /\ UNCHANGED << node, aside, staging, backup, lastMade, starts >>

Cleanup ==
    /\ at = "validated" /\ at' = "run"
    /\ aside' = aside \ {backup}
    /\ UNCHANGED << node, staging, backup, handle, lastMade, verdict, starts >>

\* The rollback of a start that failed: what was installed is deleted, then what
\* was moved aside is put back.  Either may fail: a directory that was not
\* deleted is not replaced.
Discard ==
    /\ at = "undo" /\ at' = "restore"
    /\ node' \in {node, NoDb}
    /\ UNCHANGED << aside, staging, backup, handle, lastMade, verdict, starts >>

Restore ==
    /\ at = "restore" /\ at' = "run"
    /\ \/ /\ node = NoDb /\ node' = backup
          /\ aside' = aside \ {backup}
       \/ UNCHANGED << node, aside >>
    /\ UNCHANGED << staging, backup, handle, lastMade, verdict, starts >>

\* The node opens its database, and makes one where it finds none.  What the
\* process has open already it goes on using.
Run ==
    /\ at = "run" /\ handle = NoDb
    /\ IF node = NoDb THEN lastMade' = lastMade + 1 /\ node' = lastMade'
                      ELSE UNCHANGED << node, lastMade >>
    /\ handle' = node'
    /\ UNCHANGED << aside, staging, backup, at, verdict, starts >>

\* It stops, or is killed at any moment; a staging directory then stays
\* behind under a name no later start looks for.
Stop ==
    /\ at # "off" /\ at' = "off"
    /\ staging' = NoDb /\ backup' = NoDb /\ handle' = NoDb
    /\ UNCHANGED << node, aside, lastMade, verdict, starts >>

BootInit ==
    /\ node = 1 /\ lastMade = 1 /\ trusted = 1 /\ misread = FALSE
    /\ aside = {} /\ staging = NoDb /\ backup = NoDb /\ handle = NoDb
    /\ at = "off" /\ starts = Starts

BootNext == \/ StartUp \/ MoveAside \/ MoveFails \/ Install \/ InstallFails
            \/ Validate \/ Cleanup
            \/ Discard \/ Restore \/ Run \/ Stop

BootSpec == BootInit /\ [][BootNext]_bootVars

\* Whenever the process is killed, and whatever step fails, the database last known
\* to be good is still on the disk, in the node's directory or moved aside, until a
\* newer one has been validated in its place.  Except when the validation read
\* another database through a handle opened before the swap (bootstrap.py:351-353,
\* kv.py:38-63): then the one moved aside is deleted on its own word.
GoodIsKept == misread \/ trusted \in {node} \cup aside
=============================================================================
