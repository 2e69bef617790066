-------------------------------- MODULE Lpkg --------------------------------
(***************************************************************************)
(* lpkg: install, remove and update as the file operations they are, one   *)
(* at a time, with power loss or a kill between any two, and the database  *)
(* of installed packages, which is read at the start of each command and   *)
(* written in place at its end.                                            *)
(*                                                                         *)
(* An archive is [name, files, signed]; name is the sequence of the parts  *)
(* between the dashes of its file name.  No two commands run at once.      *)
(***************************************************************************)
EXTENDS Integers, Sequences, Functions, FiniteSets

CONSTANTS
  Archives,    \* the packages there are
  Paths,       \* the files they contain
  DbMax,       \* MAX_DB_PKGS
  FilesMax,    \* files one entry can list
  MaxCommands, \* bound: commands run
  Faults       \* what may go wrong: "crash", "tar", "unlink", "download", "open"

ASSUME LpkgAssumption ==
  /\ DbMax \in Nat /\ FilesMax \in Nat /\ MaxCommands \in Nat
  /\ \A a \in Archives : a.files \in Seq(Paths) /\ Len(a.name) > 0

VARIABLES
  disk,      \* the files lpkg has put there and not removed
  db,        \* the entries in installed.toml, as far as they can be parsed
  index,     \* the archives index.toml lists
  step,      \* where the command is; "idle" between commands
  target,    \* the archive, for remove one with the name given
  mem,       \* g_db
  todo,      \* files still to extract or to unlink
  ran,       \* commands so far
  exact      \* no command yet has lost track of a file in a way it may

lpkg == <<disk, db, index, step, target, mem, todo, ran, exact>>

\* The name the file name yields: up to the first dash.
DbName(a) == a.name[1]
Listed(entries) == UNION {Range(entries[i].files) : i \in DOMAIN entries}

LpkgInit ==
  /\ disk = {} /\ db = << >> /\ index = {} /\ step = "idle" /\ mem = << >>
  /\ target = CHOOSE a \in Archives : TRUE
  /\ todo = << >> /\ ran = 0 /\ exact = TRUE

\* db_load_installed: a file that is not there is no entry, and one that was
\* cut short counts as far as it goes.
DbLoad == SubSeq(db, 1, IF Len(db) < DbMax THEN Len(db) ELSE DbMax)

Begin(first, a) ==
  /\ step = "idle" /\ ran < MaxCommands
  /\ ran' = ran + 1 /\ step' = first /\ target' = a /\ mem' = DbLoad
  /\ UNCHANGED <<disk, db, index, todo, exact>>

Goto(next) == step' = next /\ UNCHANGED <<disk, db, index, target, mem, todo, ran, exact>>

\* The command returns 1; what it has done so far stays.
GiveUp(loses) ==
  /\ step' = "idle" /\ todo' = << >>
  /\ exact' = (exact /\ ~loses)
  /\ UNCHANGED <<disk, db, index, target, mem, ran>>

\* handle_update: curl writes onto index.toml itself.
Update ==
  /\ step = "update" /\ step' = "idle"
  /\ \/ index' = Archives
     \/ "download" \in Faults /\ index' \in {{}, index}
  /\ UNCHANGED <<disk, db, target, mem, todo, ran, exact>>

\* handle_install with a name: look it up, fetch archive and signature.
Fetch ==
  /\ step = "fetch"
  /\ \/ target \in index /\ Goto("verify")
     \/ (target \notin index \/ "download" \in Faults) /\ GiveUp(FALSE)

\* access of the signature file and verify_signature: the public key, the
\* signature and the archive must all be readable and of the right size, and
\* the signature must fit.
Verify ==
  /\ step = "verify"
  /\ \/ /\ target.signed
        /\ step' = "extract" /\ todo' = target.files
        /\ UNCHANGED <<disk, db, index, target, mem, ran, exact>>
     \/ ~target.signed /\ GiveUp(FALSE)

\* extract_package: tar unpacks onto the root, file by file, or stops half way.
Extract ==
  /\ step = "extract"
  /\ \/ /\ todo # << >>
        /\ disk' = disk \cup {todo[1]} /\ todo' = Tail(todo)
        /\ UNCHANGED <<db, index, step, target, mem, ran, exact>>
     \/ todo = << >> /\ Goto("record")
     \/ "tar" \in Faults /\ GiveUp(TRUE)

\* get_tar_file_list: as many files as the entry has room for.
TarFileList(a) == SubSeq(a.files, 1, IF Len(a.files) < FilesMax THEN Len(a.files) ELSE FilesMax)

Entry(a) == [name |-> DbName(a), files |-> TarFileList(a)]

\* idx: the first entry with the name, if there is one.
IndexOf(entries, n) ==
  {i \in DOMAIN entries : entries[i].name = n /\ \A j \in 1..i-1 : entries[j].name # n}

\* The entry takes the place of one with the same name, or is appended.
WithEntry(a) ==
  LET at == IndexOf(mem, DbName(a))
  IN  [i \in 1..Len(mem) + (IF at = {} THEN 1 ELSE 0) |->
         IF i \in at \/ i = Len(mem) + 1 THEN Entry(a) ELSE mem[i]]

\* install_local_lpkg after the extraction.  The files of the entry that is
\* replaced, and those beyond the room of the new one, are forgotten; a full
\* table is noticed only now.
Record ==
  /\ step = "record"
  /\ LET at == IndexOf(mem, DbName(target))
         forgotten == (UNION {Range(mem[i].files) : i \in at}) \ Range(TarFileList(target))
     IN  \/ /\ at # {} \/ Len(mem) < DbMax
            /\ mem' = WithEntry(target) /\ step' = "open"
            /\ exact' = (exact /\ forgotten = {} /\ Len(target.files) <= FilesMax)
            /\ UNCHANGED <<disk, db, index, target, todo, ran>>
         \/ at = {} /\ Len(mem) >= DbMax /\ GiveUp(TRUE)

\* handle_remove, before the first unlink.
FindEntry ==
  /\ step = "find"
  /\ \/ \E i \in IndexOf(mem, DbName(target)) :
          /\ todo' = mem[i].files /\ step' = "unlink"
          /\ UNCHANGED <<disk, db, index, target, mem, ran, exact>>
     \/ IndexOf(mem, DbName(target)) = {} /\ GiveUp(FALSE)

\* The entries after the one that goes move down by one.
Without(entries, idx) ==
  [i \in 1..Len(entries) - 1 |-> IF i < idx THEN entries[i] ELSE entries[i + 1]]
RemoveEntry == \E idx \in IndexOf(mem, DbName(target)) : mem' = Without(mem, idx)

\* Mutant of Unlink: the entry goes while a file is left.
UnlinkOneShort ==
  /\ step = "unlink"
  /\ IF Len(todo) > 1
     THEN /\ disk' = disk \ {todo[1]} /\ todo' = Tail(todo)
          /\ UNCHANGED <<db, index, step, target, mem, ran, exact>>
     ELSE /\ RemoveEntry /\ step' = "open" /\ todo' = << >>
          /\ UNCHANGED <<disk, db, index, target, ran, exact>>

\* The files one by one, those another package has put there again included; a
\* failing unlink is only reported.  Then the entry goes.
Unlink ==
  /\ step = "unlink"
  /\ IF todo # << >>
     THEN /\ todo' = Tail(todo)
          /\ \/ disk' = disk \ {todo[1]} /\ UNCHANGED exact
             \/ "unlink" \in Faults /\ exact' = FALSE /\ UNCHANGED disk
          /\ UNCHANGED <<db, index, step, target, mem, ran>>
     ELSE /\ RemoveEntry /\ step' = "open"
          /\ UNCHANGED <<disk, db, index, target, todo, ran, exact>>

\* db_save_installed opens the file for writing, which empties it.
SaveOpen ==
  /\ step = "open"
  /\ \/ /\ db' = << >> /\ step' = "save"
        /\ UNCHANGED <<disk, index, target, mem, todo, ran, exact>>
     \/ "open" \in Faults /\ GiveUp(TRUE)

\* It writes the entries, and the command is done.
SaveEntry ==
  /\ step = "save"
  /\ IF Len(db) < Len(mem)
     THEN db' = Append(db, mem[Len(db) + 1]) /\ UNCHANGED step
     ELSE step' = "idle" /\ UNCHANGED db
  /\ UNCHANGED <<disk, index, target, mem, todo, ran, exact>>

\* The machine or the process stops.  Of the entry that was being written the
\* first few files may have reached the disk.
Crash ==
  /\ "crash" \in Faults /\ step # "idle"
  /\ step' = "idle" /\ todo' = << >> /\ exact' = FALSE
  /\ \/ UNCHANGED db
     \/ /\ step = "save" /\ Len(db) < Len(mem)
        /\ \E k \in 0..Len(mem[Len(db) + 1].files) - 1 :
             db' = Append(db, [mem[Len(db) + 1] EXCEPT !.files = SubSeq(@, 1, k)])
  /\ UNCHANGED <<disk, index, target, mem, ran>>

Command == Update \/ Fetch \/ Verify \/ Extract \/ Record \/ FindEntry \/ Unlink
           \/ SaveOpen \/ SaveEntry

LpkgNext ==
  \/ \E first \in {"update", "fetch", "verify", "find"}, a \in Archives : Begin(first, a)
  \/ Command
  \/ Crash

-----------------------------------------------------------------------------

\* Between commands every file lpkg has installed is listed by an entry, so
\* that it can be removed again, after any sequence of installs and removals;
\* and no name is listed twice, through crashes in the middle of a save and the
\* reload of what they left: a second entry would survive the removal of the
\* first.  The exceptions are exactly the ones exact records: a command that
\* failed after it began to unpack or was cut short, a file that could not be
\* unlinked, an archive with more files than an entry holds, and an install
\* over an entry of the same name that had other files.
TracksFiles ==
  /\ step = "idle" /\ exact => disk \subseteq Listed(db)
  /\ \A i, j \in DOMAIN db : db[i].name = db[j].name => i = j
  /\ Len(db) <= DbMax /\ Len(mem) <= DbMax

=============================================================================
