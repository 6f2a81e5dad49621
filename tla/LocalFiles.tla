------------------------------- MODULE LocalFiles -------------------------------
(***************************************************************************)
(* The files the program keeps for a user without a database: the alert    *)
(* history (AlertStorage), the settings file (save_alerts_config) and the  *)
(* user's .env (update_user_env_vars).  Each update loads the file, writes *)
(* the new content to a temporary file and renames that over the old one.  *)
(*                                                                         *)
(* Threads of a process take turns: the history and the .env have a lock   *)
(* per path, the settings are saved by one coroutine at a time.  Nothing   *)
(* is shared between processes, of which there are two where the worker    *)
(* or the command line runs beside the dashboard.  Left out is "init" of   *)
(* the command line, which copies the example over the settings file in    *)
(* place, before it saves them as modelled here.                           *)
(*                                                                         *)
(* A content is the sequence of the updates in it.  Names of files refer   *)
(* to inodes: a process that opened a file goes on writing to what it      *)
(* opened, whatever the name refers to by then.                            *)
(***************************************************************************)
EXTENDS Naturals, Sequences, FiniteSets

CONSTANTS FileThread,
          ProcessOf(_),   \* thread -> process
          NoTurn,         \* nobody of the process updates the file
          MaxRows,        \* MAX_DELIVERY_LOG
          MaxUpdates      \* bound: updates ever begun

ASSUME FilesAssumption ==
  IsFiniteSet(FileThread) /\ NoTurn \notin FileThread /\ MaxUpdates \in Nat

VARIABLES
  file,      \* the file this is about
  inode,     \* inode -> content, or Torn while it is being written
  name,      \* "target" and "tmp" -> inode, or 0
  updater,   \* process -> thread that updates the file
  update,    \* thread -> its update, with what it has read and opened
  begun      \* updates begun

fileVars == <<file, inode, name, updater, update, begun>>

File == {"history", "settings", "env"}
FileProcess == {ProcessOf(t) : t \in FileThread}
Torn == <<0>>
NoUpdate == [at |-> "none", fd |-> 0]
Inode == 1..(Cardinality(FileThread) + 2)
--------------------------------------------------------------------------------
(* Slips: variants of definitions below with a plausible bug in them.      *)
SlipNoTurn(t) == TRUE
--------------------------------------------------------------------------------
FilesInit ==
  /\ file \in File
  /\ inode = [i \in Inode |-> <<>>]
  /\ name = [target |-> 0, tmp |-> 0]
  /\ updater = [p \in FileProcess |-> NoTurn]
  /\ update = [t \in FileThread |-> NoUpdate]
  /\ begun = 0

(* _load: a file that is missing or cannot be parsed counts as empty. *)
Content(n) == IF n = 0 \/ inode[n] = Torn THEN <<>> ELSE inode[n]

(* record_delivery and record_event append, the former up to a cap;        *)
(* update_user_env_vars keeps the other keys; the settings are replaced.   *)
NewContent(f, rows, u) ==
  LET longer == Append(rows, u)
  IN CASE f = "settings" -> <<u>>
       [] f = "env" -> longer
       [] OTHER -> IF Len(longer) > MaxRows THEN Tail(longer) ELSE longer

TurnFree(t) == updater[ProcessOf(t)] = NoTurn

Continues(t, u) == update' = [update EXCEPT ![t] = u]

BeginUpdate(t) ==
  /\ update[t] = NoUpdate
  /\ begun < MaxUpdates
  /\ TurnFree(t)
  /\ updater' = [updater EXCEPT ![ProcessOf(t)] = t]
  /\ begun' = begun + 1
  /\ Continues(t, [at |-> "loaded", fd |-> 0,
                   content |-> NewContent(file, Content(name.target), begun')])
  /\ UNCHANGED <<file, inode, name>>

InUse == {name.target, name.tmp} \cup {update[t].fd : t \in FileThread}

FreeInode == CHOOSE i \in Inode : i \notin InUse

(* The .env gets a temporary file of its own (mkstemp), which no other     *)
(* process opens; the others have one name for it.                         *)
OpenTmp(t) ==
  LET fd == IF file # "env" /\ name.tmp # 0 THEN name.tmp ELSE FreeInode
  IN /\ update[t].at = "loaded"
     /\ inode' = [inode EXCEPT ![fd] = Torn]
     /\ name' = IF file = "env" THEN name ELSE [name EXCEPT !.tmp = fd]
     /\ Continues(t, [update[t] EXCEPT !.at = "opened", !.fd = fd])
     /\ UNCHANGED <<file, updater, begun>>

CloseTmp(t) ==
  /\ update[t].at = "opened"
  /\ inode' = [inode EXCEPT ![update[t].fd] = update[t].content]
  /\ Continues(t, [update[t] EXCEPT !.at = "closed"])
  /\ UNCHANGED <<file, name, updater, begun>>

(* The end of an update, also of one that raises. *)
EndUpdate(t) ==
  /\ updater' = [updater EXCEPT ![ProcessOf(t)] = IF @ = t THEN NoTurn ELSE @]
  /\ Continues(t, NoUpdate)

(* The rename takes what the temporary name refers to now. *)
RenameTmp(t) ==
  LET source == IF file = "env" THEN update[t].fd ELSE name.tmp
  IN /\ update[t].at = "closed"
     /\ source # 0
     /\ name' = [name EXCEPT !.target = source, !.tmp = IF file = "env" THEN @ ELSE 0]
     /\ EndUpdate(t)
     /\ UNCHANGED <<file, inode, begun>>

(* It raises when another process has renamed the file before, and when    *)
(* the target stays locked for six attempts (Windows).                     *)
RenameFails(t) ==
  /\ update[t].at = "closed"
  /\ EndUpdate(t)
  /\ UNCHANGED <<file, inode, name, begun>>

FileProcessDies(p) ==
  /\ updater[p] # NoTurn
  /\ updater' = [updater EXCEPT ![p] = NoTurn]
  /\ update' = [t \in FileThread |-> IF ProcessOf(t) = p THEN NoUpdate ELSE update[t]]
  /\ UNCHANGED <<file, inode, name, begun>>

FilesNext ==
  \/ \E t \in FileThread : \/ BeginUpdate(t) \/ OpenTmp(t) \/ CloseTmp(t)
                           \/ RenameTmp(t) \/ RenameFails(t)
  \/ \E p \in FileProcess : FileProcessDies(p)

FilesSpec == FilesInit /\ [][FilesNext]_fileVars
--------------------------------------------------------------------------------
FilesTypeOK ==
  /\ name.target \in Inode \cup {0} /\ name.tmp \in Inode \cup {0}
  /\ begun <= MaxUpdates

(* "Atomic replace so readers never observe a truncated write" (_save of   *)
(* alert_storage.py), which two processes with one temporary name break.   *)
ReadersSeeWhole == name.target # 0 => inode[name.target] # Torn

ShownNow == [file |-> file, rows |-> IF name.target = 0 THEN <<>> ELSE inode[name.target]]

AfterUpdate(s, u) == [s EXCEPT !.rows = NewContent(s.file, @, u)]

Updates == INSTANCE FileUpdates WITH
  Update <- 1..MaxUpdates, After <- AfterUpdate, shown <- ShownNow

(* A reader always finds complete content, and no update loses another:    *)
(* the comments of AlertStorage and update_user_env_vars promise it of     *)
(* concurrent calls, and crashes in the middle of one.                     *)
ImplementsUpdates == Updates!UpdatesSpec
================================================================================
